---- MODULE Spec2Model ----
\* Server side of the RPC request/response routing of cis_interface:
\* ServerRequestDriver (drivers/ServerRequestDriver.py) pumping requests from
\* the shared client channel (icomm) to the server model's input channel
\* (ocomm), counting clients and creating one ServerResponseDriver per request.
EXTENDS Integers, Sequences, FiniteSets, TLC

\* ---------------------------------------------------------------- bounds
\* Messages the clients put on the shared request channel in one behaviour.
MaxMsgs == 4
\* Requests among those messages (the others are sign-ons and EOFs).
MaxRequests == 2
\* Client request drivers attached to the server driver.
NumClients == 2
\* Failed tries of one recv before its timeout window is over.
MaxRetries == 2

\* --------------------------------------------------------- message values
\* Largest message a comm transfers in one piece; longer ones are chunked.
MaxMsgSize == 2
\* Sign-on sentinel sent by a client request driver when it starts.
CIS_CLIENT_INI == <<1, 1>>
\* End-of-file message of a comm.
EOF_MSG == <<0, 0>>
\* The short and the long (larger than MaxMsgSize) test messages.
msg_short == <<0>>
msg_long == <<0, 1, 0>>

Clients == 1..NumClients
RequestBodies == {msg_short, msg_long}

\* Addresses. 'EOF' is the reserved response address; a client response
\* address is unique per request; a response driver listens on its own.
EOF_ADDR == [kind |-> "EOF"]
ClientAddress(c, i) == [kind |-> "client", client |-> c, req |-> i]
ModelAddress(k) == [kind |-> "model", drv |-> k]
NoHeader == [id |-> 0, response_address |-> [kind |-> "none"]]

\* send_nolimit: a message longer than MaxMsgSize is split into pieces.
RECURSIVE Chunks(_)
Chunks(b) ==
    IF Len(b) <= MaxMsgSize
    THEN <<b>>
    ELSE <<SubSeq(b, 1, MaxMsgSize)>> \o Chunks(SubSeq(b, MaxMsgSize + 1, Len(b)))

\* recv_nolimit: the pieces are put together again.
RECURSIVE Join(_)
Join(cs) == IF cs = <<>> THEN <<>> ELSE Head(cs) \o Join(Tail(cs))

VARIABLES
    state,            \* driver lifecycle: CREATED, RUNNING, STOPPED
    pc,               \* position of the pump thread in its loop
    icomm_sent,       \* every message put on the request channel, in order
    nrecv,            \* how many of them the pump has received
    icomm_open,       \* icomm.is_open
    ocomm_open,       \* ocomm.is_open
    has_last_header,  \* icomm._last_header exists (set by the first recv)
    last_header,      \* icomm._last_header
    msg,              \* the message the pump is handling
    header_kwargs,    \* header the pump attaches to the outgoing message
    nclients,         \* ServerRequestDriver.nclients
    response_drivers, \* ServerRequestDriver.response_drivers
    ocomm_sent,       \* every message sent on the output channel, in order
    model_nrecv,      \* how many of them the server model has received
    delivered,        \* replies delivered to client response addresses
    tpc,              \* position of the thread calling terminate()
    nsignon,          \* sign-on messages handled by the pump
    nsignoff,         \* EOF messages handled by the pump
    lock,             \* self.lock: the thread holding it, or "free"
    nfail             \* failed tries of the recv the loop is waiting in

\* A pair of comms on one channel, used on their own (no driver).
VARIABLES
    send_closed,      \* send_instance.is_closed
    recv_closed,      \* recv_instance.is_closed
    chan,             \* messages on the channel, each as its pieces, in order
    send_ret,         \* what the last send / send_nolimit was given and returned
    recv_ret,         \* what the last recv / recv_nolimit returned
    nput              \* messages put on the channel so far

comm_vars == <<send_closed, recv_closed, chan, send_ret, recv_ret, nput>>

\* An RMQOutputDriver: local queue, publishing loop, broker channel.
\* One record holds its fields.
VARIABLE rmq

\* messages the model has put on the local queue, in order
ipc_sent == rmq.ipc_sent
\* how many of them ipc_recv has taken
ipc_taken == rmq.ipc_taken
\* the local queue is closed
ipc_closed == rmq.ipc_closed
\* position of publish_message
rmq_pc == rmq.rmq_pc
\* data held by publish_message
rmq_data == rmq.rmq_data
\* RMQOutputDriver._closing
rmq_closing == rmq.rmq_closing
\* self.channel.is_open
channel_open == rmq.channel_open
\* bodies passed to channel.basic_publish, in order
published == rmq.published
\* calls of stop_communication made so far
nstop == rmq.nstop
\* calls of self.channel.close() made so far
nclose == rmq.nclose
\* publish_message callbacks set with add_timeout and not yet called
pending == rmq.pending

rmq_vars == <<rmq>>

\* RMQAsyncComm (the recv_instance of the reconnect test)
\* One record holds its fields.
VARIABLE rc

\* connection: open, reconnecting or fatal
rc_conn == rc.rc_conn
\* number of times the connection was opened
times_connected == rc.times_connected
\* times_connected when the connection was last lost
rc_before == rc.rc_before
\* sleeps since the connection was last lost
rc_elapsed == rc.rc_elapsed
\* failed attempts to reconnect since then
rc_attempts == rc.rc_attempts

rc_vars == <<rc>>

\* new_comm (comm construction with or without a broker server)
\* One record holds its fields.
VARIABLE nc

\* check_rmq_server()
broker_running == nc.broker_running
\* the comm objects constructed so far
comms == nc.comms
\* outcome of the last new_comm: comm or RuntimeError
new_comm_ret == nc.new_comm_ret
\* number of calls of new_comm
new_comm_calls == nc.new_comm_calls

nc_vars == <<nc>>

\* metaschema type registry
\* One record holds its fields.
VARIABLE registry

\* the registry: pairs of type name and type class
_type_registry == registry._type_registry
\* outcome of the last register_type
register_ret == registry.register_ret
\* the class that register_type last took out, if any
replaced == registry.replaced
\* number of calls of register_type
nregistered == registry.nregistered

reg_vars == <<registry>>

\* container encode and decode (JSONObjectMetaschemaType)
\* One record holds its fields.
VARIABLE ms

\* input, encode, decode or done
ms_pc == ms.ms_pc
\* the object to encode
ms_obj == ms.ms_obj
\* the container typedef
ms_typedef == ms.ms_typedef
\* result of encode_data
ms_encoded == ms.ms_encoded
\* outcome of decode_data: the object, or the error raised
ms_decoded == ms.ms_decoded

ms_vars == <<ms>>

\* MetaschemaProperty.wrapped_validate, called as a generator by a validator
\* One record holds its fields:
\*   mp_pc: position of wrapped_validate: input, own, base, finally, done, raised, closed
\*   cls: the property class: name, types, _encode, _compare, _validate
\*   mp_value: value of the property in the schema
\*   mp_instance: the instance to validate
\*   _normalizing: validator._normalizing
\*   _normalized: validator._normalized
\*   base_errors: what the base validator registered for the property's name produces
\*   own: outcome of cls.validate: its errors, or that it raised
\*   failed: failed, the local of wrapped_validate
\*   yielded: errors yielded to the caller so far, in order
\*   base_ran: the base validator was called
\*   post_validated: cls.post_validate was called
VARIABLE mp


mp_vars == <<mp>>

\* An AsciiTable, made directly or as the file of an AsciiTableOutputDriver
\* One record holds its fields:
\*   table: none before construction, made, or failed when __init__ raised
\*   made_by: direct, driver or none
\*   io_mode: io_mode given to AsciiTable.__init__
\*   arg_format_str: a format_str was given by the caller
\*   arg_dtype: a dtype was given by the caller
\*   has_format_str: hasattr(self, '_format_str')
\*   _format_str: AsciiTable._format_str, a string of characters
\*   has_dtype: hasattr(self, '_dtype')
\*   _dtype: AsciiTable._dtype, the fields of a structured dtype
\*   table_raised: the exception of the last call, or none
\*   file_lines: lines written to the file, in order
\*   table_icomm: messages sent to the driver's input, in order
\*   table_nrecv: how many of them recv_message has returned
\*   driver_pc: none, created, loop or error
VARIABLE tab


tab_vars == <<tab>>

driver_vars == <<state, pc, icomm_sent, nrecv, icomm_open, ocomm_open,
                 has_last_header, last_header, msg, header_kwargs, nclients,
                 response_drivers, ocomm_sent, model_nrecv, delivered, tpc,
                 nsignon, nsignoff, lock, nfail>>

\* What the steps of each component leave alone.
not_driver_vars == <<comm_vars, rmq_vars, rc_vars, nc_vars, reg_vars, ms_vars, mp_vars, tab_vars>>
not_comm_vars == <<driver_vars, rmq_vars, rc_vars, nc_vars, reg_vars, ms_vars, mp_vars, tab_vars>>
not_rmq_vars == <<driver_vars, comm_vars, rc_vars, nc_vars, reg_vars, ms_vars, mp_vars, tab_vars>>

not_rc_vars == <<driver_vars, comm_vars, rmq_vars, nc_vars, reg_vars, ms_vars, mp_vars, tab_vars>>

not_nc_vars == <<driver_vars, comm_vars, rmq_vars, rc_vars, reg_vars, ms_vars, mp_vars, tab_vars>>

not_reg_vars == <<driver_vars, comm_vars, rmq_vars, rc_vars, nc_vars, ms_vars, mp_vars, tab_vars>>

not_ms_vars == <<driver_vars, comm_vars, rmq_vars, rc_vars, nc_vars, reg_vars, mp_vars, tab_vars>>

not_mp_vars == <<driver_vars, comm_vars, rmq_vars, rc_vars, nc_vars, reg_vars, ms_vars, tab_vars>>

not_tab_vars == <<driver_vars, comm_vars, rmq_vars, rc_vars, nc_vars, reg_vars, ms_vars, mp_vars>>

vars == <<driver_vars, comm_vars, rmq_vars, rc_vars, nc_vars, reg_vars, ms_vars, mp_vars, tab_vars>>

\* ------------------------------------------------- ServerRequestDriver
\* __init__: no response drivers, no clients, nothing received yet.
Init ==
    /\ state = "CREATED"
    /\ pc = "recv"
    /\ icomm_sent = <<>>
    /\ nrecv = 0
    /\ icomm_open = TRUE
    /\ ocomm_open = TRUE
    /\ has_last_header = FALSE
    /\ last_header = NoHeader
    /\ msg = <<>>
    /\ header_kwargs = NoHeader
    /\ nclients = 0
    /\ response_drivers = <<>>
    /\ ocomm_sent = <<>>
    /\ model_nrecv = 0
    /\ delivered = {}
    /\ tpc = "idle"
    /\ nsignon = 0
    /\ nsignoff = 0
    /\ lock = "free"
    /\ nfail = 0
    /\ send_closed = FALSE
    /\ recv_closed = FALSE
    /\ chan = <<>>
    /\ send_ret = [msg |-> <<>>, flag |-> TRUE, nolimit |-> FALSE]
    /\ recv_ret = [msg |-> <<>>, flag |-> TRUE, nolimit |-> FALSE]
    /\ nput = 0
    /\ rmq =
          [ipc_sent |-> <<>>,
           ipc_taken |-> 0,
           ipc_closed |-> FALSE,
           rmq_pc |-> "start",
           rmq_data |-> <<>>,
           rmq_closing |-> FALSE,
           channel_open |-> TRUE,
           published |-> <<>>,
           nstop |-> 0,
           nclose |-> 0,
           pending |-> 0]
    /\ rc =
          [rc_conn |-> "open",
           times_connected |-> 1,
           rc_before |-> 0,
           rc_elapsed |-> 0,
           rc_attempts |-> 0]
    /\ nc =
          [broker_running |-> FALSE,
           comms |-> <<>>,
           new_comm_ret |-> "none",
           new_comm_calls |-> 0]
    /\ registry =
          [_type_registry |-> {<<"int", "ScalarMetaschemaType">>, <<"object", "JSONObjectMetaschemaType">>},
           register_ret |-> "none",
           replaced |-> "none",
           nregistered |-> 0]
    /\ ms =
          [ms_pc |-> "input",
           ms_obj |-> [kind |-> "dict", items |-> [k \in {} |-> 0]],
           ms_typedef |-> [keys |-> {}, type |-> "", properties |-> [k \in {} |-> 0]],
           ms_encoded |-> [kind |-> "dict", items |-> [k \in {} |-> 0]],
           ms_decoded |-> [ok |-> TRUE, err |-> "none", val |-> [kind |-> "dict", items |-> [k \in {} |-> 0]]]]
    /\ mp =
          [mp_pc |-> "input",
           cls |-> [name |-> "type", types |-> {}, _encode |-> "None",
                    _compare |-> "None",
                    _validate |-> [kind |-> "None", errors |-> <<>>]],
           mp_value |-> 0,
           mp_instance |-> [type |-> "int", val |-> 0],
           _normalizing |-> FALSE,
           _normalized |-> [type |-> "int", val |-> 0],
           base_errors |-> <<>>,
           own |-> [raised |-> FALSE, errors |-> <<>>],
           failed |-> FALSE,
           yielded |-> <<>>,
           base_ran |-> FALSE,
           post_validated |-> FALSE]
    /\ tab =
          [table |-> "none",
           made_by |-> "none",
           io_mode |-> "w",
           arg_format_str |-> FALSE,
           arg_dtype |-> FALSE,
           has_format_str |-> FALSE,
           _format_str |-> <<>>,
           has_dtype |-> FALSE,
           _dtype |-> <<>>,
           table_raised |-> "none",
           file_lines |-> <<>>,
           table_icomm |-> <<>>,
           table_nrecv |-> 0,
           driver_pc |-> "none"]

\* property request_id: id in the header of the last received message.
request_id == last_header.id

\* Variant of response_address: reads the header of the newest message on
\* the channel instead of the header of the message last received.
response_address_latest ==
    IF icomm_sent = <<>>
    THEN last_header.response_address
    ELSE icomm_sent[Len(icomm_sent)].header.response_address

\* property response_address: response address in that same header.
response_address == last_header.response_address

\* Variant of getattr: a header that was never set reads as the empty header.
getattr_default(k) ==
    [raised |-> "none",
     value |-> IF k = "request_id" THEN [id |-> request_id]
                                   ELSE response_address]

\* getattr(instance, k) for k in request_id, response_address: both read
\* icomm._last_header, an attribute the comm has only once a message was
\* received; before that the read raises AttributeError.
getattr(k) ==
    IF ~has_last_header
    THEN [raised |-> "AttributeError", value |-> [kind |-> "none"]]
    ELSE [raised |-> "none",
          value |-> IF k = "request_id" THEN [id |-> request_id]
                                        ELSE response_address]

\* ConnectionDriver.is_comm_open
is_comm_open == icomm_open /\ ocomm_open

\* Variant of base_on_eof: the EOF message is not sent on.
base_on_eof_absorbs == <<>>

\* ConnectionDriver.on_eof: the EOF message is what gets sent on.
base_on_eof == EOF_MSG

\* ConnectionDriver.on_message: identity.
base_on_message(m) == m

\* Variant of on_eof: hands the EOF on at every sign-off.
on_eof_every(n, hdr) ==
    [nclients |-> n - 1,
     last_header |-> [hdr EXCEPT !.response_address = EOF_ADDR],
     msg |-> base_on_eof]

\* on_eof: decrement nclients; only at 0 mark the header 'EOF' and hand the
\* EOF on, otherwise return the empty message.
on_eof(n, hdr) ==
    LET n2 == n - 1 IN
    IF n2 = 0
    THEN [nclients |-> n2,
          last_header |-> [hdr EXCEPT !.response_address = EOF_ADDR],
          msg |-> base_on_eof]
    ELSE [nclients |-> n2, last_header |-> hdr, msg |-> <<>>]

\* Variant of on_message: counts every message as a sign-on.
on_message_counts_all(n, m) ==
    IF m = CIS_CLIENT_INI
    THEN [nclients |-> n + 1, msg |-> base_on_message(<<>>)]
    ELSE [nclients |-> n + 1, msg |-> base_on_message(m)]

\* Variant of on_message: counts the sign-on but passes it on.
on_message_forwards_signon(n, m) ==
    IF m = CIS_CLIENT_INI
    THEN [nclients |-> n + 1, msg |-> base_on_message(m)]
    ELSE [nclients |-> n, msg |-> base_on_message(m)]

\* Variant of on_message: passes on only the first piece of a long message.
on_message_first_piece(n, m) ==
    IF m = CIS_CLIENT_INI
    THEN [nclients |-> n + 1, msg |-> base_on_message(<<>>)]
    ELSE [nclients |-> n, msg |-> base_on_message(Head(Chunks(m)))]

\* on_message: a sign-on increments nclients and is replaced by the empty
\* message; anything else goes through the parent's on_message.
on_message(n, m) ==
    IF m = CIS_CLIENT_INI
    THEN [nclients |-> n + 1, msg |-> base_on_message(<<>>)]
    ELSE [nclients |-> n, msg |-> base_on_message(m)]

\* ServerResponseDriver(response_address, comm=..., msg_id=request_id):
\* the k-th driver created listens on its own fresh address.
ServerResponseDriver(addr, id, k) ==
    [address |-> addr, msg_id |-> id, model_response_address |-> ModelAddress(k),
     started |-> TRUE, terminated |-> FALSE, reply |-> <<>>, forwarded |-> FALSE]

\* Variant of send_message: no test for the 'EOF' response address.
send_message_eof_driver(open, rds) ==
    IF ~open
    THEN [call_base |-> FALSE, response_drivers |-> rds, header_kwargs |-> NoHeader]
    ELSE LET response_driver ==
                 ServerResponseDriver(response_address, request_id, Len(rds) + 1)
         IN [call_base |-> TRUE,
             response_drivers |-> Append(rds, response_driver),
             header_kwargs |->
                 [id |-> request_id,
                  response_address |-> response_driver.model_response_address]]

\* Variant of send_message: the outgoing header keeps the client's address.
send_message_client_address(open, rds) ==
    IF response_address # EOF_ADDR
    THEN IF ~open
         THEN [call_base |-> FALSE, response_drivers |-> rds,
               header_kwargs |-> NoHeader]
         ELSE LET response_driver ==
                      ServerResponseDriver(response_address, request_id, Len(rds) + 1)
              IN [call_base |-> TRUE,
                  response_drivers |-> Append(rds, response_driver),
                  header_kwargs |->
                      [id |-> request_id, response_address |-> response_address]]
    ELSE [call_base |-> TRUE, response_drivers |-> rds, header_kwargs |-> NoHeader]

\* Variant of send_message: no test for the comm being open.
send_message_no_open_check(open, rds) ==
    IF response_address # EOF_ADDR
    THEN LET response_driver ==
                 ServerResponseDriver(response_address, request_id, Len(rds) + 1)
         IN [call_base |-> TRUE,
             response_drivers |-> Append(rds, response_driver),
             header_kwargs |->
                 [id |-> request_id,
                  response_address |-> response_driver.model_response_address]]
    ELSE [call_base |-> TRUE, response_drivers |-> rds, header_kwargs |-> NoHeader]

\* send_message up to the call of the parent's send_message: unless the
\* response address is 'EOF', under the lock: return False when the comm is
\* closed, else create, start and append a response driver and put its
\* address and the request id in the outgoing header.
send_message(open, rds) ==
    IF response_address # EOF_ADDR
    THEN IF ~open
         THEN [call_base |-> FALSE, response_drivers |-> rds,
               header_kwargs |-> NoHeader]
         ELSE LET response_driver ==
                      ServerResponseDriver(response_address, request_id, Len(rds) + 1)
              IN [call_base |-> TRUE,
                  response_drivers |-> Append(rds, response_driver),
                  header_kwargs |->
                      [id |-> request_id,
                       response_address |-> response_driver.model_response_address]]
    ELSE [call_base |-> TRUE, response_drivers |-> rds, header_kwargs |-> NoHeader]

\* ------------------------------------------------------------- clients
\* What every send on the shared request channel leaves unchanged.
client_unchanged ==
    UNCHANGED <<state, pc, nrecv, icomm_open, ocomm_open, has_last_header,
                last_header, msg, header_kwargs, nclients, response_drivers,
                ocomm_sent, model_nrecv, delivered, tpc, nsignon, nsignoff, lock,
                nfail, not_driver_vars>>

\* comm.send: the message goes on the channel, in pieces when it is long,
\* with its header.
comm_send(q, b, hdr) == Append(q, [body |-> b, chunks |-> Chunks(b), header |-> hdr])

\* A client request driver signs on when it starts: the sentinel is sent
\* as it is, with no response address.
client_signon ==
    /\ Len(icomm_sent) < MaxMsgs
    /\ icomm_sent' = comm_send(icomm_sent, CIS_CLIENT_INI,
                               [NoHeader EXCEPT !.id = Len(icomm_sent) + 1])
    /\ client_unchanged

\* A client closing its connection sends the EOF message.
client_eof ==
    /\ Len(icomm_sent) < MaxMsgs
    /\ icomm_sent' = comm_send(icomm_sent, EOF_MSG,
                               [NoHeader EXCEPT !.id = Len(icomm_sent) + 1])
    /\ client_unchanged

\* The requests among the messages sent, and the clients that sent them.
Requests ==
    {i \in 1..Len(icomm_sent) : icomm_sent[i].header.response_address.kind = "client"}
Requesters == {icomm_sent[i].header.response_address.client : i \in Requests}

\* A client sends a request: the header carries a fresh id and the address
\* of the channel, new for this request, on which it expects the reply.
\* Clients are numbered in the order of their first request.
client_request(c, b) ==
    /\ Len(icomm_sent) < MaxMsgs
    /\ Cardinality(Requests) < MaxRequests
    /\ c <= Cardinality(Requesters) + 1
    /\ LET i == Len(icomm_sent) + 1 IN
         icomm_sent' = comm_send(icomm_sent, b,
             [id |-> i, response_address |-> ClientAddress(c, i)])
    /\ client_unchanged

\* ------------------------------------------------------ the pump thread
start ==
    /\ state = "CREATED"
    /\ state' = "RUNNING"
    /\ UNCHANGED <<pc, icomm_sent, nrecv, icomm_open, ocomm_open, has_last_header,
                   last_header, msg, header_kwargs, nclients, response_drivers,
                   ocomm_sent, model_nrecv, delivered, tpc, nsignon, nsignoff, lock>>
    /\ UNCHANGED <<nfail, not_driver_vars>>

\* recv_message: the next message of the request channel, put together from
\* its pieces, and the header the comm records for it.
recv_message(q, n) == [msg |-> Join(q[n + 1].chunks), header |-> q[n + 1].header]

\* One pass of the loop up to send_message: receive a message, then call
\* on_eof for the EOF message and on_message for any other; an empty
\* result is not sent.
run_loop ==
    /\ state = "RUNNING" /\ pc = "recv"
    /\ is_comm_open
    /\ nrecv < Len(icomm_sent)
    /\ nrecv' = nrecv + 1
    /\ has_last_header' = TRUE
    /\ LET m == recv_message(icomm_sent, nrecv) IN
         IF m.msg = EOF_MSG
         THEN LET r == on_eof(nclients, m.header) IN
                /\ nclients' = r.nclients
                /\ last_header' = r.last_header
                /\ msg' = r.msg
                /\ pc' = IF r.msg = <<>> THEN "recv" ELSE "send"
                /\ nsignoff' = nsignoff + 1
                /\ nsignon' = nsignon
         ELSE LET r == on_message(nclients, m.msg) IN
                /\ nclients' = r.nclients
                /\ last_header' = m.header
                /\ msg' = r.msg
                /\ pc' = IF r.msg = <<>> THEN "recv" ELSE "send"
                /\ nsignon' = IF m.msg = CIS_CLIENT_INI THEN nsignon + 1 ELSE nsignon
                /\ nsignoff' = nsignoff
    /\ UNCHANGED <<state, icomm_sent, icomm_open, ocomm_open, header_kwargs,
                   response_drivers, ocomm_sent, model_nrecv, delivered, tpc, lock>>
    /\ UNCHANGED not_driver_vars
    /\ nfail' = 0

\* The loop calls send_message with the processed message. For the 'EOF'
\* response address the parent's send_message is called at once; otherwise
\* the thread first enters "with self.lock".
run_send_message ==
    /\ pc = "send"
    /\ IF response_address # EOF_ADDR
       THEN /\ lock = "free"
            /\ lock' = "pump"
            /\ pc' = "locked"
            /\ UNCHANGED <<response_drivers, header_kwargs>>
       ELSE LET r == send_message(is_comm_open, response_drivers) IN
              /\ response_drivers' = r.response_drivers
              /\ header_kwargs' = r.header_kwargs
              /\ pc' = IF r.call_base THEN "base_send" ELSE "recv"
              /\ lock' = lock
    /\ UNCHANGED <<state, icomm_sent, nrecv, icomm_open, ocomm_open,
                   has_last_header, last_header, msg, nclients, ocomm_sent,
                   model_nrecv, delivered, tpc, nsignon, nsignoff>>
    /\ UNCHANGED <<nfail, not_driver_vars>>

\* The body of "with self.lock" in send_message, and leaving it: the open
\* check, the new response driver, the append; the lock is released before
\* the parent's send_message is called.
run_send_message_locked ==
    /\ pc = "locked"
    /\ LET r == send_message(is_comm_open, response_drivers) IN
         /\ response_drivers' = r.response_drivers
         /\ header_kwargs' = r.header_kwargs
         /\ pc' = IF r.call_base THEN "base_send" ELSE "recv"
    /\ lock' = "free"
    /\ UNCHANGED <<state, icomm_sent, nrecv, icomm_open, ocomm_open,
                   has_last_header, last_header, msg, nclients, ocomm_sent,
                   model_nrecv, delivered, tpc, nsignon, nsignoff>>
    /\ UNCHANGED <<nfail, not_driver_vars>>

\* Variant of base_send_message: no test for the output comm being closed.
base_send_message_unchecked ==
    /\ pc = "base_send"
    /\ ocomm_sent' = Append(ocomm_sent,
                            [chunks |-> Chunks(msg), header |-> header_kwargs])
    /\ IF msg = EOF_MSG
       THEN ocomm_open' = FALSE /\ pc' = "done" /\ state' = "STOPPED"
       ELSE ocomm_open' = ocomm_open /\ pc' = "recv" /\ state' = state
    /\ UNCHANGED <<icomm_sent, nrecv, icomm_open, has_last_header, last_header, msg,
                   header_kwargs, nclients, response_drivers, model_nrecv, delivered,
                   tpc, nsignon, nsignoff, lock>>
    /\ UNCHANGED <<nfail, not_driver_vars>>

\* ConnectionDriver.send_message: send on the output comm unless it is
\* closed; sending the EOF message closes the comm and ends the loop.
base_send_message ==
    /\ pc = "base_send"
    /\ IF ocomm_open
       THEN /\ ocomm_sent' = Append(ocomm_sent,
                                    [chunks |-> Chunks(msg), header |-> header_kwargs])
            /\ IF msg = EOF_MSG
               THEN ocomm_open' = FALSE /\ pc' = "done" /\ state' = "STOPPED"
               ELSE ocomm_open' = ocomm_open /\ pc' = "recv" /\ state' = state
       ELSE /\ pc' = "recv"
            /\ UNCHANGED <<ocomm_sent, ocomm_open, state>>
    /\ UNCHANGED <<icomm_sent, nrecv, icomm_open, has_last_header, last_header, msg,
                   header_kwargs, nclients, response_drivers, model_nrecv, delivered,
                   tpc, nsignon, nsignoff, lock>>
    /\ UNCHANGED <<nfail, not_driver_vars>>

\* Variant of run_exit: the loop does not notice a closed comm.
run_exit_needs_stopped ==
    /\ pc = "recv"
    /\ state = "STOPPED"
    /\ pc' = "done"
    /\ state' = "STOPPED"
    /\ UNCHANGED <<icomm_sent, nrecv, icomm_open, ocomm_open, has_last_header,
                   last_header, msg, header_kwargs, nclients, response_drivers,
                   ocomm_sent, model_nrecv, delivered, tpc, nsignon, nsignoff, lock>>
    /\ UNCHANGED <<nfail, not_driver_vars>>

\* The loop ends once the driver is stopped or a comm is closed.
run_exit ==
    /\ pc = "recv"
    /\ state # "CREATED"
    /\ state = "STOPPED" \/ ~is_comm_open
    /\ pc' = "done"
    /\ state' = "STOPPED"
    /\ UNCHANGED <<icomm_sent, nrecv, icomm_open, ocomm_open, has_last_header,
                   last_header, msg, header_kwargs, nclients, response_drivers,
                   ocomm_sent, model_nrecv, delivered, tpc, nsignon, nsignoff, lock>>
    /\ UNCHANGED <<nfail, not_driver_vars>>

\* ---------------------------------------------------- the server model
\* The server model receives the next request and sends its reply (the body
\* it received) to the response address named in the request's header.
model_recv_send ==
    /\ model_nrecv < Len(ocomm_sent)
    /\ model_nrecv' = model_nrecv + 1
    /\ LET m == ocomm_sent[model_nrecv + 1]
           a == m.header.response_address
       IN IF Join(m.chunks) # EOF_MSG /\ a.kind = "model"
          THEN IF response_drivers[a.drv].terminated
               THEN UNCHANGED response_drivers
               ELSE response_drivers' =
                        [response_drivers EXCEPT ![a.drv].reply = Chunks(Join(m.chunks))]
          ELSE UNCHANGED response_drivers
    /\ UNCHANGED <<state, pc, icomm_sent, nrecv, icomm_open, ocomm_open,
                   has_last_header, last_header, msg, header_kwargs, nclients,
                   ocomm_sent, delivered, tpc, nsignon, nsignoff, lock>>
    /\ UNCHANGED <<nfail, not_driver_vars>>

\* A response driver forwards the reply it received to the client response
\* address it was created with.
response_driver_run(k) ==
    /\ response_drivers[k].reply # <<>>
    /\ ~response_drivers[k].terminated
    /\ ~response_drivers[k].forwarded
    /\ delivered' = delivered \cup
           {[to |-> response_drivers[k].address, id |-> response_drivers[k].msg_id,
             body |-> Join(response_drivers[k].reply)]}
    /\ response_drivers' = [response_drivers EXCEPT ![k].forwarded = TRUE]
    /\ UNCHANGED <<state, pc, icomm_sent, nrecv, icomm_open, ocomm_open,
                   has_last_header, last_header, msg, header_kwargs, nclients,
                   ocomm_sent, model_nrecv, tpc, nsignon, nsignoff, lock>>
    /\ UNCHANGED <<nfail, not_driver_vars>>

\* ------------------------------------------------------------ terminate
\* Variant of terminate: the loop stops one driver short.
terminate_skips_last ==
    /\ tpc = "idle"
    /\ response_drivers' =
           [k \in 1..Len(response_drivers) |->
               IF k < Len(response_drivers)
               THEN [response_drivers[k] EXCEPT !.terminated = TRUE]
               ELSE response_drivers[k]]
    /\ tpc' = "base"
    /\ UNCHANGED <<state, pc, icomm_sent, nrecv, icomm_open, ocomm_open,
                   has_last_header, last_header, msg, header_kwargs, nclients,
                   ocomm_sent, model_nrecv, delivered, nsignon, nsignoff, lock>>
    /\ UNCHANGED <<nfail, not_driver_vars>>

\* terminate(), called from another thread: for x in self.response_drivers:
\* x.terminate(); the parent's terminate follows.
terminate ==
    /\ tpc = "idle"
    /\ response_drivers' =
           [k \in 1..Len(response_drivers) |->
               [response_drivers[k] EXCEPT !.terminated = TRUE]]
    /\ tpc' = "base"
    /\ UNCHANGED <<state, pc, icomm_sent, nrecv, icomm_open, ocomm_open,
                   has_last_header, last_header, msg, header_kwargs, nclients,
                   ocomm_sent, model_nrecv, delivered, nsignon, nsignoff, lock>>
    /\ UNCHANGED <<nfail, not_driver_vars>>

\* terminate() called again after it has returned: the same loop, over the
\* response drivers there are now; terminating a terminated response driver
\* changes nothing. The parent's terminate follows.
terminate_again ==
    /\ tpc = "done"
    /\ response_drivers' =
           [k \in 1..Len(response_drivers) |->
               [response_drivers[k] EXCEPT !.terminated = TRUE]]
    /\ tpc' = "base_again"
    /\ UNCHANGED <<state, pc, icomm_sent, nrecv, icomm_open, ocomm_open,
                   has_last_header, last_header, msg, header_kwargs, nclients,
                   ocomm_sent, model_nrecv, delivered, nsignon, nsignoff, lock>>
    /\ UNCHANGED <<nfail, not_driver_vars>>

\* ConnectionDriver.terminate: close both comms, under the lock, and stop
\* the driver.
base_terminate ==
    /\ tpc \in {"base", "base_again"}
    /\ lock = "free"
    /\ tpc' = "done"
    /\ icomm_open' = FALSE
    /\ ocomm_open' = FALSE
    /\ state' = "STOPPED"
    /\ UNCHANGED <<pc, icomm_sent, nrecv, has_last_header, last_header, msg,
                   header_kwargs, nclients, response_drivers, ocomm_sent,
                   model_nrecv, delivered, nsignon, nsignoff, lock>>
    /\ UNCHANGED <<nfail, not_driver_vars>>

Next ==
    \/ client_signon
    \/ client_eof
    \/ \E c \in Clients, b \in RequestBodies : client_request(c, b)
    \/ start
    \/ run_loop
    \/ run_send_message
    \/ run_send_message_locked
    \/ base_send_message
    \/ run_exit
    \/ model_recv_send
    \/ \E k \in 1..Len(response_drivers) : response_driver_run(k)
    \/ terminate
    \/ base_terminate

Spec == Init /\ [][Next]_vars

\* The same with terminate() called any number of times.
NextAgain == Next \/ terminate_again

SpecAgain == Init /\ [][NextAgain]_vars

\* Variant of terminate_in_callback: the lock cannot be taken again by the
\* thread that holds it, so the call waits for ever for its own lock.
terminate_in_callback_plain_lock ==
    /\ pc \in {"send", "locked"}
    /\ tpc = "idle"
    /\ response_drivers' =
           [k \in 1..Len(response_drivers) |->
               [response_drivers[k] EXCEPT !.terminated = TRUE]]
    /\ IF lock = "pump"
       THEN /\ pc' = "blocked" /\ tpc' = "base"
            /\ UNCHANGED <<icomm_open, ocomm_open, state>>
       ELSE /\ pc' = pc /\ tpc' = "done"
            /\ icomm_open' = FALSE /\ ocomm_open' = FALSE /\ state' = "STOPPED"
    /\ UNCHANGED <<icomm_sent, nrecv, has_last_header, last_header, msg,
                   header_kwargs, nclients, ocomm_sent, model_nrecv, delivered,
                   nsignon, nsignoff, lock>>
    /\ UNCHANGED <<nfail, not_driver_vars>>

\* terminate() called on the loop's own thread from within the handling of
\* a message, before send_message or inside its "with self.lock": the loop
\* over response_drivers takes no lock, and the parent's terminate takes the
\* lock, which the thread may hold already, closes the comms and stops the
\* driver. The thread then goes on where it was.
terminate_in_callback ==
    /\ pc \in {"send", "locked"}
    /\ tpc = "idle"
    /\ response_drivers' =
           [k \in 1..Len(response_drivers) |->
               [response_drivers[k] EXCEPT !.terminated = TRUE]]
    /\ tpc' = "done"
    /\ icomm_open' = FALSE
    /\ ocomm_open' = FALSE
    /\ state' = "STOPPED"
    /\ UNCHANGED <<pc, icomm_sent, nrecv, has_last_header, last_header, msg,
                   header_kwargs, nclients, ocomm_sent, model_nrecv, delivered,
                   nsignon, nsignoff, lock>>
    /\ UNCHANGED <<nfail, not_driver_vars>>

\* The driver and its clients, with terminate() called from another thread
\* or from within the handling of a message.
NextCallback ==
    \/ client_signon
    \/ client_eof
    \/ \E c \in Clients, b \in RequestBodies : client_request(c, b)
    \/ start
    \/ run_loop
    \/ run_send_message
    \/ run_send_message_locked
    \/ base_send_message
    \/ run_exit
    \/ terminate
    \/ base_terminate
    \/ terminate_in_callback

\* Steps of the loop's thread.
Pump == run_loop \/ run_send_message \/ run_send_message_locked
            \/ base_send_message \/ run_exit

\* The loop's thread and a thread inside terminate() keep running.
SpecCallbackFair ==
    Init /\ [][NextCallback]_vars /\ WF_vars(Pump) /\ WF_vars(base_terminate)

\* A recv of the loop fails without EOF and the timeout window is not over:
\* the loop tries again.
recv_failure ==
    /\ UNCHANGED not_driver_vars
    /\ state = "RUNNING" /\ pc = "recv"
    /\ is_comm_open
    /\ nfail < MaxRetries
    /\ nfail' = nfail + 1
    /\ UNCHANGED <<state, pc, icomm_sent, nrecv, icomm_open, ocomm_open,
                   has_last_header, last_header, msg, header_kwargs, nclients,
                   response_drivers, ocomm_sent, model_nrecv, delivered, tpc,
                   nsignon, nsignoff, lock>>

\* The recv fails again with the timeout window over: the loop gives up and
\* the driver stops.
recv_timeout ==
    /\ state = "RUNNING" /\ pc = "recv"
    /\ is_comm_open
    /\ nfail = MaxRetries
    /\ pc' = "done"
    /\ state' = "STOPPED"
    /\ UNCHANGED <<icomm_sent, nrecv, icomm_open, ocomm_open, has_last_header,
                   last_header, msg, header_kwargs, nclients, response_drivers,
                   ocomm_sent, model_nrecv, delivered, tpc, nsignon, nsignoff, lock>>
    /\ UNCHANGED <<nfail, not_driver_vars>>

\* The driver and its clients, with recvs that can fail and terminate()
\* called from another thread.
NextRetry ==
    \/ client_signon
    \/ client_eof
    \/ \E c \in Clients, b \in RequestBodies : client_request(c, b)
    \/ start
    \/ run_loop
    \/ recv_failure
    \/ recv_timeout
    \/ run_send_message
    \/ run_send_message_locked
    \/ base_send_message
    \/ run_exit
    \/ terminate
    \/ base_terminate

SpecRetry == Init /\ [][NextRetry]_vars

TypeOK ==
    /\ state \in {"CREATED", "RUNNING", "STOPPED"}
    /\ pc \in {"recv", "send", "locked", "base_send", "done"}
    /\ nrecv \in 0..Len(icomm_sent)
    /\ model_nrecv \in 0..Len(ocomm_sent)
    /\ nclients \in Int
    /\ tpc \in {"idle", "base", "done", "base_again"}
    /\ lock \in {"free", "pump"}

\* ------------------------------- a ConnectionDriver with the base hooks
\* One pass of the loop of a driver that overrides neither hook: receive a
\* message, call on_eof for the EOF message (receiving it closes the input
\* comm) and on_message for any other, and hand the result to send_message.
base_run_loop ==
    /\ state = "RUNNING" /\ pc = "recv"
    /\ is_comm_open
    /\ nrecv < Len(icomm_sent)
    /\ nrecv' = nrecv + 1
    /\ has_last_header' = TRUE
    /\ LET m == recv_message(icomm_sent, nrecv)
           r == IF m.msg = EOF_MSG THEN base_on_eof ELSE base_on_message(m.msg)
       IN /\ last_header' = m.header
          /\ msg' = r
          /\ pc' = IF r = <<>> THEN "recv" ELSE "base_send"
          /\ icomm_open' = (m.msg # EOF_MSG)
          /\ nsignoff' = IF m.msg = EOF_MSG THEN nsignoff + 1 ELSE nsignoff
    /\ UNCHANGED <<state, icomm_sent, ocomm_open, header_kwargs, nclients,
                   response_drivers, ocomm_sent, model_nrecv, delivered, tpc,
                   nsignon, lock>>
    /\ UNCHANGED not_driver_vars
    /\ nfail' = 0

\* stop_communication(), called from another thread: the comms are closed
\* under the lock; the loop finds them closed and ends.
stop_communication ==
    /\ tpc = "idle"
    /\ lock = "free"
    /\ icomm_open' = FALSE
    /\ ocomm_open' = FALSE
    /\ tpc' = "done"
    /\ UNCHANGED <<state, pc, icomm_sent, nrecv, has_last_header, last_header,
                   msg, header_kwargs, nclients, response_drivers, ocomm_sent,
                   model_nrecv, delivered, nsignon, nsignoff, lock>>
    /\ UNCHANGED <<nfail, not_driver_vars>>

NextBase ==
    \/ client_signon
    \/ client_eof
    \/ \E c \in Clients, b \in RequestBodies : client_request(c, b)
    \/ start
    \/ base_run_loop
    \/ base_send_message
    \/ run_exit
    \/ stop_communication

SpecBase == Init /\ [][NextBase]_vars

\* The loop runs on a thread of its own, and a recv returns when its timeout
\* is over: a step of the loop that stays possible is taken.
PumpBase == base_run_loop \/ base_send_message \/ run_exit

SpecBaseFair == SpecBase /\ WF_vars(PumpBase)

\* ------------------------------------------------------- a Comm pair
\* Messages given to the sending comm.
CommMsgs == {msg_short, msg_long, EOF_MSG}

\* Variant of Comm_send: the EOF message is sent like any other message.
Comm_send_eof_as_data(closed, m, nolimit) ==
    IF closed
    THEN [flag |-> FALSE, closed |-> TRUE, put |-> <<>>]
    ELSE IF ~nolimit /\ Len(m) > MaxMsgSize
         THEN [flag |-> FALSE, closed |-> FALSE, put |-> <<>>]
         ELSE [flag |-> TRUE, closed |-> FALSE,
               put |-> <<IF nolimit THEN Chunks(m) ELSE <<m>>>>]

\* Comm.send (nolimit = FALSE) and Comm.send_nolimit (nolimit = TRUE): a
\* closed comm sends nothing and returns False; the EOF message is sent, the
\* comm closes and the call returns False; a message over the size limit is
\* refused by send and sent in pieces by send_nolimit.
Comm_send(closed, m, nolimit) ==
    IF closed
    THEN [flag |-> FALSE, closed |-> TRUE, put |-> <<>>]
    ELSE IF m = EOF_MSG
         THEN [flag |-> FALSE, closed |-> TRUE, put |-> <<Chunks(EOF_MSG)>>]
         ELSE IF ~nolimit /\ Len(m) > MaxMsgSize
              THEN [flag |-> FALSE, closed |-> FALSE, put |-> <<>>]
              ELSE [flag |-> TRUE, closed |-> FALSE,
                    put |-> <<IF nolimit THEN Chunks(m) ELSE <<m>>>>]

\* Variant of Comm_recv: no test for the comm being closed.
Comm_recv_when_closed(closed, q, nolimit) ==
    IF q = <<>>
    THEN [flag |-> FALSE, msg |-> <<>>, closed |-> closed, chan |-> q]
    ELSE LET h == Head(q)
             m == IF nolimit THEN Join(h) ELSE Head(h)
             rest == IF nolimit \/ Len(h) = 1 THEN Tail(q) ELSE <<Tail(h)>> \o Tail(q)
         IN IF m = EOF_MSG
            THEN [flag |-> FALSE, msg |-> m, closed |-> TRUE, chan |-> rest]
            ELSE [flag |-> TRUE, msg |-> m, closed |-> closed, chan |-> rest]

\* Comm.recv (nolimit = FALSE) and Comm.recv_nolimit (nolimit = TRUE) with
\* a message waiting or the comm closed: a closed comm receives nothing and
\* returns False; recv takes one piece, recv_nolimit a whole message put
\* together from its pieces; receiving the EOF message closes the comm and
\* returns False with the EOF message.
Comm_recv(closed, q, nolimit) ==
    IF closed
    THEN [flag |-> FALSE, msg |-> <<>>, closed |-> TRUE, chan |-> q]
    ELSE LET h == Head(q)
             m == IF nolimit THEN Join(h) ELSE Head(h)
             rest == IF nolimit \/ Len(h) = 1 THEN Tail(q) ELSE <<Tail(h)>> \o Tail(q)
         IN IF m = EOF_MSG
            THEN [flag |-> FALSE, msg |-> m, closed |-> TRUE, chan |-> rest]
            ELSE [flag |-> TRUE, msg |-> m, closed |-> FALSE, chan |-> rest]

\* send_instance.send(m) / send_instance.send_nolimit(m)
send_instance_send(m, nolimit) ==
    /\ nput < MaxMsgs
    /\ LET r == Comm_send(send_closed, m, nolimit) IN
         /\ send_closed' = r.closed
         /\ chan' = chan \o r.put
         /\ nput' = nput + Len(r.put)
         /\ send_ret' = [msg |-> m, flag |-> r.flag, nolimit |-> nolimit]
    /\ UNCHANGED <<recv_closed, recv_ret, not_comm_vars>>

\* recv_instance.recv() / recv_instance.recv_nolimit(); with the comm open
\* and nothing on the channel the call waits.
recv_instance_recv(nolimit) ==
    /\ recv_closed \/ chan # <<>>
    /\ LET r == Comm_recv(recv_closed, chan, nolimit) IN
         /\ recv_closed' = r.closed
         /\ chan' = r.chan
         /\ recv_ret' = [msg |-> r.msg, flag |-> r.flag, nolimit |-> nolimit]
    /\ UNCHANGED <<send_closed, send_ret, nput, not_comm_vars>>

\* send_instance.close(): closing a closed comm changes nothing.
send_instance_close ==
    /\ send_closed' = TRUE
    /\ UNCHANGED <<recv_closed, chan, send_ret, recv_ret, nput, not_comm_vars>>

\* recv_instance.close()
recv_instance_close ==
    /\ recv_closed' = TRUE
    /\ UNCHANGED <<send_closed, chan, send_ret, recv_ret, nput, not_comm_vars>>

NextComm ==
    \/ \E m \in CommMsgs, nolimit \in BOOLEAN : send_instance_send(m, nolimit)
    \/ \E nolimit \in BOOLEAN : recv_instance_recv(nolimit)
    \/ send_instance_close
    \/ recv_instance_close

SpecComm == Init /\ [][NextComm]_vars

\* ----------------------------------------------------- RMQOutputDriver
\* Bound on the number of calls of stop_communication followed.
MaxStops == 2

\* The model puts a message on the local queue; each gets the next id.
ipc_send(b) ==
    /\ Len(ipc_sent) < MaxMsgs
    /\ ~ipc_closed
    /\ rmq' = [rmq EXCEPT !.ipc_sent =
                   Append(ipc_sent, [id |-> Len(ipc_sent) + 1, body |-> b])]
    /\ UNCHANGED not_rmq_vars

\* The local queue is closed.
ipc_close ==
    /\ ~ipc_closed
    /\ rmq' = [rmq EXCEPT !.ipc_closed = TRUE]
    /\ UNCHANGED not_rmq_vars

\* IODriver.ipc_recv: None when the queue is closed, empty data when it
\* holds no message, else the first message, which leaves the queue.
ipc_recv(sent, taken, closed) ==
    IF closed
    THEN [kind |-> "None", data |-> <<>>, taken |-> taken]
    ELSE IF taken = Len(sent)
         THEN [kind |-> "empty", data |-> <<>>, taken |-> taken]
         ELSE [kind |-> "data", data |-> sent[taken + 1], taken |-> taken + 1]

\* publish_message is entered, from start_communication or when the timeout
\* set by an earlier call is over: it returns at once when the driver is
\* closing.
publish_message ==
    /\ rmq_pc \in {"start", "scheduled"}
    /\ rmq' = [rmq EXCEPT
                 !.rmq_pc = IF rmq_closing THEN "returned" ELSE "recv",
                 !.pending = IF rmq_pc = "scheduled" THEN pending - 1
                                                     ELSE pending]
    /\ UNCHANGED not_rmq_vars

\* Variant of publish_message_recv: a closed queue too sets the timeout.
publish_message_recv_again ==
    /\ rmq_pc = "recv"
    /\ LET r == ipc_recv(ipc_sent, ipc_taken, ipc_closed) IN
         rmq' = [rmq EXCEPT
                   !.ipc_taken = r.taken,
                   !.rmq_data = r.data,
                   !.pending = IF r.kind \in {"None", "empty"}
                               THEN pending + 1 ELSE pending,
                   !.rmq_pc = CASE r.kind = "None" -> "scheduled"
                                [] r.kind = "empty" -> "scheduled"
                                [] OTHER -> "publish"]
    /\ UNCHANGED not_rmq_vars

\* The head of the while loop: ipc_recv; None ends the loop, no data sets a
\* timeout that calls publish_message again and ends the loop, data goes on
\* to be published.
publish_message_recv ==
    /\ rmq_pc = "recv"
    /\ LET r == ipc_recv(ipc_sent, ipc_taken, ipc_closed) IN
         rmq' = [rmq EXCEPT
                   !.ipc_taken = r.taken,
                   !.rmq_data = r.data,
                   !.pending = IF r.kind = "empty" THEN pending + 1
                                                   ELSE pending,
                   !.rmq_pc = CASE r.kind = "None" -> "returned"
                                [] r.kind = "empty" -> "scheduled"
                                [] OTHER -> "publish"]
    /\ UNCHANGED not_rmq_vars

\* Variant of publish_message_publish: the data goes in front of what was
\* published before.
publish_message_publish_front ==
    /\ rmq_pc = "publish"
    /\ IF rmq_closing
       THEN rmq' = [rmq EXCEPT !.rmq_pc = "returned"]
       ELSE rmq' = [rmq EXCEPT !.rmq_pc = "recv",
                               !.published = <<rmq_data>> \o published]
    /\ UNCHANGED not_rmq_vars

\* Variant of publish_message_publish: when the driver is closing the data
\* goes back to the local queue.
publish_message_publish_requeue ==
    /\ rmq_pc = "publish"
    /\ IF rmq_closing
       THEN rmq' = [rmq EXCEPT !.rmq_pc = "returned",
                               !.ipc_taken = ipc_taken - 1]
       ELSE rmq' = [rmq EXCEPT !.rmq_pc = "recv",
                               !.published = Append(published, rmq_data)]
    /\ UNCHANGED not_rmq_vars

\* Variant of publish_message_publish: the data is published whether the
\* driver is closing or not.
publish_message_publish_unlocked ==
    /\ rmq_pc = "publish"
    /\ rmq' = [rmq EXCEPT !.rmq_pc = IF rmq_closing THEN "returned" ELSE "recv",
                          !.published = Append(published, rmq_data)]
    /\ UNCHANGED not_rmq_vars

\* Under the lock: return when the driver is closing, else basic_publish
\* the data and go round the loop.
publish_message_publish ==
    /\ rmq_pc = "publish"
    /\ IF rmq_closing
       THEN rmq' = [rmq EXCEPT !.rmq_pc = "returned"]
       ELSE rmq' = [rmq EXCEPT !.rmq_pc = "recv",
                               !.published = Append(published, rmq_data)]
    /\ UNCHANGED not_rmq_vars

\* RMQOutputDriver.stop_communication: under the lock, mark the driver as
\* closing and close the channel if it is open.
rmq_stop_communication ==
    /\ nstop < MaxStops
    /\ rmq' = [rmq EXCEPT
                 !.nstop = nstop + 1,
                 !.rmq_closing = TRUE,
                 !.channel_open = FALSE,
                 !.nclose = IF channel_open THEN nclose + 1 ELSE nclose]
    /\ UNCHANGED not_rmq_vars

NextRMQ ==
    \/ \E b \in RequestBodies : ipc_send(b)
    \/ ipc_close
    \/ publish_message
    \/ publish_message_recv
    \/ publish_message_publish
    \/ rmq_stop_communication

SpecRMQ == Init /\ [][NextRMQ]_vars

\* The connection's ioloop runs the callbacks it holds and a running
\* publish_message goes on to its next statement.
SpecRMQFair ==
    /\ SpecRMQ
    /\ WF_vars(publish_message)
    /\ WF_vars(publish_message_recv)
    /\ WF_vars(publish_message_publish)

\* ---------------------------------------------------------------- RMQAsyncComm
\* Reconnect after an unexpected disconnect. The comm's code is described by
\* its test (test_reconnect) and by the reconnect-on-disconnect rule; time is
\* counted in sleeps of the waiting loop.

\* Bound on the number of disconnects followed.
MaxDisconnects == 4

\* Timeout of the reconnect (the test waits 5.0), in sleeps.
ReconnectTimeout == 5

\* recv_instance.connection.close(reply_code=100, ...): the connection is lost
\* without the comm having been closed.
connection_close ==
    /\ rc_conn = "open"
    /\ times_connected <= MaxDisconnects
    /\ rc' = [rc EXCEPT !.rc_conn = "reconnecting",
                        !.rc_before = times_connected,
                        !.rc_elapsed = 0,
                        !.rc_attempts = 0]
    /\ UNCHANGED not_rc_vars

\* One sleep of the waiting loop while the connection is lost.
rc_sleep ==
    /\ rc_conn = "reconnecting"
    /\ rc_elapsed < ReconnectTimeout
    /\ rc' = [rc EXCEPT !.rc_elapsed = rc_elapsed + 1]
    /\ UNCHANGED not_rc_vars

\* An attempt to reconnect that fails; the number of attempts is bounded.
reconnect_fails ==
    /\ rc_conn = "reconnecting"
    /\ rc_elapsed < ReconnectTimeout
    /\ rc_attempts < MaxRetries
    /\ rc' = [rc EXCEPT !.rc_attempts = rc_attempts + 1]
    /\ UNCHANGED not_rc_vars

\* Variant of reconnect: the connection is opened again but not counted.
reconnect_uncounted ==
    /\ rc_conn = "reconnecting"
    /\ rc_elapsed < ReconnectTimeout
    /\ rc' = [rc EXCEPT !.rc_conn = "open"]
    /\ UNCHANGED not_rc_vars

\* The connection is opened again before the timeout: it is counted.
reconnect ==
    /\ rc_conn = "reconnecting"
    /\ rc_elapsed < ReconnectTimeout
    /\ rc' = [rc EXCEPT !.rc_conn = "open",
                        !.times_connected = times_connected + 1]
    /\ UNCHANGED not_rc_vars

\* The timeout passes without a connection: fatal for the driver.
reconnect_timeout ==
    /\ rc_conn = "reconnecting"
    /\ rc_elapsed = ReconnectTimeout
    /\ rc' = [rc EXCEPT !.rc_conn = "fatal"]
    /\ UNCHANGED not_rc_vars

NextReconnect ==
    \/ connection_close
    \/ rc_sleep
    \/ reconnect_fails
    \/ reconnect
    \/ reconnect_timeout

SpecReconnect == Init /\ [][NextReconnect]_vars

\* Time passes and the timeout is acted upon; whether the broker accepts a new
\* connection is not assumed.
SpecReconnectFair ==
    /\ Init /\ [][NextReconnect]_vars
    /\ WF_vars(rc_sleep)
    /\ WF_vars(reconnect_timeout)

\* ---------------------------------------------------------------- new_comm
\* Construction of an RMQAsyncComm, as test_not_running calls it.

\* Bound on the number of calls of new_comm.
MaxComms == 3

comm_kwargs ==
    [comm : {"RMQAsyncComm"}, direction : {"send", "recv"},
     reverse_names : BOOLEAN]

\* Variant of new_comm: the comm is constructed without looking for the server.
new_comm_unchecked(running, made, kwargs) ==
    [ret |-> "comm", comms |-> Append(made, kwargs)]

\* new_comm(name, comm='RMQAsyncComm', ...): RuntimeError when no server is
\* running, and then no comm object; else the new comm.
new_comm(running, made, kwargs) ==
    IF running
    THEN [ret |-> "comm", comms |-> Append(made, kwargs)]
    ELSE [ret |-> "RuntimeError", comms |-> made]

new_comm_call ==
    /\ new_comm_calls < MaxComms
    /\ \E kwargs \in comm_kwargs :
          LET r == new_comm(broker_running, comms, kwargs) IN
          nc' = [nc EXCEPT !.new_comm_ret = r.ret,
                           !.comms = r.comms,
                           !.new_comm_calls = new_comm_calls + 1]
    /\ UNCHANGED not_nc_vars

\* The broker server is started or stopped.
broker_toggle ==
    /\ nc' = [nc EXCEPT !.broker_running = ~broker_running]
    /\ UNCHANGED not_nc_vars

NextNewComm ==
    \/ new_comm_call
    \/ broker_toggle

SpecNewComm == Init /\ [][NextNewComm]_vars

\* ---------------------------------------------------------------- type registry
\* The process-wide registry of type classes. After the modules are loaded
\* it holds the scalar type and the object type (registered by the decorator
\* on JSONObjectMetaschemaType).

\* Bound on the number of later registrations followed.
MaxRegistrations == 3

TypeNames == {"int", "object", "array"}

\* class JSONObjectMetaschemaType: name and _replaces_existing.
JSONObjectMetaschemaType ==
    [name |-> "object", cls |-> "JSONObjectMetaschemaType",
     _replaces_existing |-> TRUE]

\* Type classes that may be defined while the process lives.
TypeClasses ==
    [name : TypeNames, cls : {"TypeA", "TypeB"}, _replaces_existing : BOOLEAN]
        \cup {JSONObjectMetaschemaType}

registered_names(reg) == {p[1] : p \in reg}

\* Variant of register_type: the class is added whatever the registry holds.
register_type_add(reg, c) ==
    [ret |-> "ok", reg |-> reg \cup {<<c.name, c.cls>>}, replaced |-> "none"]

\* register_type(cls): a new name is added; a name already present keeps its
\* place and gets the new class when the class declares _replaces_existing,
\* and the registration fails otherwise.
register_type(reg, c) ==
    IF c.name \notin registered_names(reg)
    THEN [ret |-> "ok", reg |-> reg \cup {<<c.name, c.cls>>},
          replaced |-> "none"]
    ELSE IF c._replaces_existing
         THEN [ret |-> "ok",
               reg |-> {p \in reg : p[1] # c.name} \cup {<<c.name, c.cls>>},
               replaced |-> (CHOOSE p \in reg : p[1] = c.name)[2]]
         ELSE [ret |-> "ValueError", reg |-> reg, replaced |-> "none"]

\* Variant of get_type_class: a name that is not registered gives the scalar
\* type.
get_type_class_default(reg, name) ==
    IF name \in registered_names(reg)
    THEN [ok |-> TRUE, cls |-> (CHOOSE p \in reg : p[1] = name)[2]]
    ELSE [ok |-> TRUE, cls |-> "ScalarMetaschemaType"]

\* get_type_class(name): the class registered under the name; a name that was
\* never registered is a type-resolution error.
get_type_class(reg, name) ==
    IF name \in registered_names(reg)
    THEN [ok |-> TRUE, cls |-> (CHOOSE p \in reg : p[1] = name)[2]]
    ELSE [ok |-> FALSE, cls |-> "TypeResolutionError"]

\* A type class is defined and registered.
register ==
    /\ nregistered < MaxRegistrations
    /\ \E c \in TypeClasses :
          LET r == register_type(_type_registry, c) IN
          registry' = [_type_registry |-> r.reg,
                       register_ret |-> r.ret,
                       replaced |-> r.replaced,
                       nregistered |-> nregistered + 1]
    /\ UNCHANGED not_reg_vars

NextRegistry == register

SpecRegistry == Init /\ [][NextRegistry]_vars

\* ---------------------------------------------------------------- containers
\* ContainerMetaschemaType.encode_data / decode_data with the hooks of
\* JSONObjectMetaschemaType. A dict is a function on a set of keys; a typedef
\* is a dict with the keys it has (keys) and their values.

\* Largest scalar drawn.
MaxInt == 1

Keys == {"a", "b"}

\* _container_type(): the empty dict.
EmptyMap == [k \in {} |-> 0]

\* The default of decode_data for an element without entry: {}.
EmptyTypedef == [keys |-> {}, type |-> "", properties |-> EmptyMap]

Maps(S) == UNION {[D -> S] : D \in SUBSET Keys}

Scalars == [kind : {"int"}, val : 0..MaxInt]

Dicts(S) == {[kind |-> "dict", items |-> f] : f \in Maps(S)}

\* Objects: dicts of scalars and of dicts of scalars, and dicts of those.
Containers == Dicts(Scalars \cup Dicts(Scalars))

ScalarTypedefs ==
    {[keys |-> {"type"}, type |-> t, properties |-> EmptyMap] :
        t \in {"int", "array"}}

ObjectTypedefs(S) ==
    {[keys |-> {"type"}, type |-> "object", properties |-> EmptyMap]}
        \cup {[keys |-> {"type", "properties"}, type |-> "object",
               properties |-> f] : f \in Maps(S)}

ContainerTypedefs == ObjectTypedefs(ScalarTypedefs \cup ObjectTypedefs(ScalarTypedefs))

\* The orders in which _iterate (dict.items()) may give the elements.
Orders == {<<"a", "b">>, <<"b", "a">>}

\* JSONObjectMetaschemaType._has_element
_has_element(container, index) == index \in DOMAIN container

\* ContainerMetaschemaType._get_element
_get_element(container, index, default) ==
    IF _has_element(container, index) THEN container[index] ELSE default

\* Variant of _assign: the container is left with the one element assigned.
_assign_alone(container, index, value) ==
    [x \in {index} |-> value]

\* JSONObjectMetaschemaType._assign
_assign(container, index, value) ==
    [x \in DOMAIN container \cup {index} |->
        IF x = index THEN value ELSE container[x]]

\* JSONObjectMetaschemaType._iterate: the keys of the dict, in the given order.
_iterate(container, order) ==
    SelectSeq(order, LAMBDA k : k \in DOMAIN container)

RECURSIVE encode_elements(_, _, _, _)
RECURSIVE generic_encode_data(_, _)

\* ContainerMetaschemaType.encode_data: each element is encoded with its entry
\* of the property map, or with no typedef when there is none, and assigned
\* to a new container.
encode_data(obj, typedef) ==
    [kind |-> "dict",
     items |-> encode_elements(_iterate(obj.items, <<"a", "b">>), obj, typedef,
                               EmptyMap)]

encode_elements(ks, obj, typedef, container) ==
    IF ks = <<>>
    THEN container
    ELSE LET k == Head(ks)
             vtypedef == IF "properties" \in typedef.keys
                         THEN _get_element(typedef.properties, k, EmptyTypedef)
                         ELSE EmptyTypedef
             vbytes == generic_encode_data(obj.items[k], vtypedef)
         IN encode_elements(Tail(ks), obj, typedef,
                            _assign(container, k, vbytes))

\* The generic encode_data: the class of the value encodes it; a scalar
\* becomes its serialized form.
generic_encode_data(v, typedef) ==
    IF v.kind = "dict"
    THEN encode_data(v, typedef)
    ELSE [kind |-> "bytes", val |-> v.val]

Failure(e) == [ok |-> FALSE, err |-> e, val |-> [kind |-> "none"]]

RECURSIVE decode_elements(_, _, _, _, _, _)

\* ContainerMetaschemaType.decode_data: for each element the entry of the
\* property map (default {}), the class registered for its 'type', and that
\* class's decode_data; an exception ends the decoding.
decode_data(obj, typedef, reg, order) ==
    decode_elements(_iterate(obj.items, order), obj, typedef, reg, order,
                    EmptyMap)

decode_elements(ks, obj, typedef, reg, order, container) ==
    IF ks = <<>>
    THEN [ok |-> TRUE, err |-> "none",
          val |-> [kind |-> "dict", items |-> container]]
    ELSE IF "properties" \notin typedef.keys
    THEN Failure("KeyError")
    ELSE LET k == Head(ks)
             vtypedef == _get_element(typedef.properties, k, EmptyTypedef)
         IN IF "type" \notin vtypedef.keys
            THEN Failure("KeyError")
            ELSE LET vcls == get_type_class(reg, vtypedef.type) IN
                 IF ~vcls.ok
                 THEN Failure(vcls.cls)
                 ELSE LET v == obj.items[k]
                          r == IF vcls.cls = "JSONObjectMetaschemaType"
                               THEN IF v.kind = "dict"
                                    THEN decode_data(v, vtypedef, reg, order)
                                    ELSE Failure("AttributeError")
                               ELSE IF v.kind = "bytes"
                                    THEN [ok |-> TRUE, err |-> "none",
                                          val |-> [kind |-> "int",
                                                   val |-> v.val]]
                                    ELSE Failure("TypeError")
                      IN IF ~r.ok
                         THEN r
                         ELSE decode_elements(Tail(ks), obj, typedef, reg,
                                              order,
                                              _assign(container, k, r.val))

\* v is valid under typedef T: it has the type T names, and each of its
\* elements that has an entry in T's property map is valid under that entry.
RECURSIVE Valid(_, _)
Valid(v, T) ==
    IF "type" \notin T.keys
    THEN TRUE
    ELSE IF T.type = "int"
    THEN v.kind = "int"
    ELSE IF T.type = "object"
    THEN /\ v.kind = "dict"
         /\ "properties" \in T.keys =>
               \A k \in DOMAIN v.items \cap DOMAIN T.properties :
                   Valid(v.items[k], T.properties[k])
    ELSE FALSE

\* An object and a container typedef are given.
ms_input ==
    /\ ms_pc = "input"
    /\ \E v \in Containers, T \in ContainerTypedefs :
          ms' = [ms EXCEPT !.ms_obj = v, !.ms_typedef = T, !.ms_pc = "encode"]
    /\ UNCHANGED not_ms_vars

\* encode_data(obj, typedef)
ms_encode ==
    /\ ms_pc = "encode"
    /\ ms' = [ms EXCEPT !.ms_encoded = encode_data(ms_obj, ms_typedef),
                        !.ms_pc = "decode"]
    /\ UNCHANGED not_ms_vars

\* decode_data(encoded, typedef)
ms_decode ==
    /\ ms_pc = "decode"
    /\ \E order \in Orders :
          ms' = [ms EXCEPT !.ms_decoded =
                              decode_data(ms_encoded, ms_typedef,
                                          _type_registry, order),
                          !.ms_pc = "done"]
    /\ UNCHANGED not_ms_vars

NextMetaschema ==
    \/ ms_input
    \/ ms_encode
    \/ ms_decode

SpecMetaschema == Init /\ [][NextMetaschema]_vars

\* ---------------------------------------------------------------- MetaschemaProperty
\* An instance has a JSON type and one value the property is read from; the
\* schema gives the value the property should have.

\* Bound on the number of errors a user validate function or the base
\* validator produces.
MaxErrors == 2

PropertyValues == {0, 1}

JSONTypes == {"int", "str"}

Instances == [type : JSONTypes, val : PropertyValues]

\* Names of properties; the base validator has an entry for the first only.
PropertyNames == {"type", "precision"}

\* _base_validator.VALIDATORS
VALIDATORS == {"type"}

\* The messages of a user-supplied validate function that finds n errors.
UserErrors(n) == [i \in 1..n |-> <<"e", i>>]

\* jsonschema.ValidationError(e)
ValidationError(e) == [ValidationError |-> e]

\* The errors of a base validator that finds n errors.
BaseErrors(n) == [i \in 1..n |-> ValidationError(<<"b", i>>)]

\* The _validate attribute: None, False or a user-supplied function.
ValidateAttrs ==
    {[kind |-> "None", errors |-> <<>>], [kind |-> "False", errors |-> <<>>]}
    \cup {[kind |-> "user", errors |-> UserErrors(n)] : n \in 0..MaxErrors}

PropertyClasses ==
    [name : PropertyNames,
     types : {{"int"}, {"int", "str"}},
     _encode : {"None", "val"},
     _compare : {"None", "user"},
     _validate : ValidateAttrs]

\* validator.is_type(instance, t)
is_type(instance, t) == instance.type = t

\* MetaschemaProperty.encode: the user-supplied _encode, which reads the
\* property off the instance, or NotImplementedError when there is none.
encode(c, instance, typedef) ==
    IF c._encode # "None"
    THEN [raised |-> FALSE, value |-> instance.val]
    ELSE [raised |-> TRUE, value |-> 0]

\* Variant of compare: no message.
compare_silent(c, prop1, prop2) == <<>>

\* MetaschemaProperty.compare, as the messages it yields. With a
\* user-supplied _compare the generator returns that function's result and
\* yields nothing.
compare(c, prop1, prop2) ==
    IF c._compare # "None"
    THEN <<>>
    ELSE IF prop1 # prop2
         THEN << <<"is not equal to", prop1, prop2>> >>
         ELSE <<>>

\* MetaschemaProperty.validate, as the messages it yields or that it raised.
validate(c, value, instance) ==
    IF c._validate.kind = "False"
    THEN [raised |-> FALSE, errors |-> <<>>]
    ELSE IF c._validate.kind # "None"
    THEN [raised |-> FALSE, errors |-> c._validate.errors]
    ELSE IF ~\E t \in c.types : is_type(instance, t)
    THEN [raised |-> FALSE, errors |-> <<>>]
    ELSE LET x == encode(c, instance, value) IN
         IF x.raised
         THEN [raised |-> TRUE, errors |-> <<>>]
         ELSE [raised |-> FALSE, errors |-> compare(c, x.value, value)]

\* MetaschemaProperty.normalize
normalize(c, value, instance) == instance

\* A validator calls wrapped_validate of a property class for a schema value
\* and an instance.
mp_input ==
    /\ mp.mp_pc = "input"
    /\ \E c \in PropertyClasses, v \in PropertyValues, i \in Instances,
          n \in BOOLEAN, b \in 0..MaxErrors :
          mp' = [mp EXCEPT !.cls = c, !.mp_value = v, !.mp_instance = i,
                           !._normalizing = n, !.base_errors = BaseErrors(b),
                           !.mp_pc = "called"]
    /\ UNCHANGED not_mp_vars

\* The first next() of the generator: normalize when normalizing, then
\* cls.validate; when that raises, the finally clause runs with failed False.
wrapped_validate ==
    /\ mp.mp_pc = "called"
    /\ LET instance == IF mp._normalizing
                       THEN normalize(mp.cls, mp.mp_value, mp.mp_instance)
                       ELSE mp.mp_instance
           errors == validate(mp.cls, mp.mp_value, instance)
       IN mp' = [mp EXCEPT
                   !._normalized = IF mp._normalizing THEN instance
                                                   ELSE mp._normalized,
                   !.own = errors,
                   !.failed = FALSE,
                   !.post_validated = errors.raised /\ mp._normalizing,
                   !.mp_pc = IF errors.raised THEN "raised" ELSE "own"]
    /\ UNCHANGED not_mp_vars

\* Variant of wrapped_validate_own: the loop over the class's errors ends
\* after the first.
wrapped_validate_own_first ==
    /\ mp.mp_pc = "own"
    /\ LET n == Len(mp.yielded) IN
       IF n < Len(mp.own.errors) /\ n < 1
       THEN mp' = [mp EXCEPT !.failed = TRUE,
                             !.yielded = Append(mp.yielded,
                                           ValidationError(mp.own.errors[n + 1]))]
       ELSE mp' = [mp EXCEPT !.mp_pc = "finally"]
    /\ UNCHANGED not_mp_vars

\* The loop over the errors of cls.validate: each sets failed and is yielded
\* as a ValidationError; after the last, the base validator is called when
\* nothing failed and it has an entry for the property's name.
wrapped_validate_own ==
    /\ mp.mp_pc = "own"
    /\ LET n == Len(mp.yielded) IN
       IF n < Len(mp.own.errors)
       THEN mp' = [mp EXCEPT !.failed = TRUE,
                             !.yielded = Append(mp.yielded,
                                           ValidationError(mp.own.errors[n + 1]))]
       ELSE IF ~mp.failed /\ mp.cls.name \in VALIDATORS
            THEN mp' = [mp EXCEPT !.base_ran = TRUE, !.mp_pc = "base"]
            ELSE mp' = [mp EXCEPT !.mp_pc = "finally"]
    /\ UNCHANGED not_mp_vars

\* The loop over the errors of the base validator: each sets failed and is
\* yielded as it is.
wrapped_validate_base ==
    /\ mp.mp_pc = "base"
    /\ LET n == Len(mp.yielded) IN
       IF n < Len(mp.base_errors)
       THEN mp' = [mp EXCEPT !.failed = TRUE,
                             !.yielded = Append(mp.yielded, mp.base_errors[n + 1])]
       ELSE mp' = [mp EXCEPT !.mp_pc = "finally"]
    /\ UNCHANGED not_mp_vars

\* Variant of wrapped_validate_finally: post_validate whenever normalizing.
wrapped_validate_finally_always ==
    /\ mp.mp_pc = "finally"
    /\ mp' = [mp EXCEPT !.post_validated = mp._normalizing, !.mp_pc = "done"]
    /\ UNCHANGED not_mp_vars

\* The finally clause at the end of the generator: post_validate when
\* normalizing and nothing failed.
wrapped_validate_finally ==
    /\ mp.mp_pc = "finally"
    /\ mp' = [mp EXCEPT !.post_validated = mp._normalizing /\ ~mp.failed,
                        !.mp_pc = "done"]
    /\ UNCHANGED not_mp_vars

\* The caller takes no more errors and closes the generator where it is
\* suspended, at a yield: the finally clause runs with failed True.
wrapped_validate_close ==
    /\ mp.mp_pc \in {"own", "base"}
    /\ mp.yielded # <<>>
    /\ mp' = [mp EXCEPT !.post_validated = mp._normalizing /\ ~mp.failed,
                        !.mp_pc = "closed"]
    /\ UNCHANGED not_mp_vars

NextProperty ==
    \/ mp_input
    \/ wrapped_validate
    \/ wrapped_validate_own
    \/ wrapped_validate_base
    \/ wrapped_validate_finally
    \/ wrapped_validate_close

SpecProperty == Init /\ [][NextProperty]_vars

\* ---------------------------------------------------------------- AsciiTable
\* Strings are sequences of characters.

\* self.column, self.newline, self.comment
column == "\t"
newline == "\n"
comment == "#"

\* Bound on the number of messages sent to an AsciiTableOutputDriver.
MaxRows == 2

\* str.split(sep) for a separator of one character.
RECURSIVE split(_, _)
split(s, sep) ==
    IF \A i \in 1..Len(s) : s[i] # sep
    THEN <<s>>
    ELSE LET i == CHOOSE j \in 1..Len(s) :
                     s[j] = sep /\ \A l \in 1..(j - 1) : s[l] # sep
         IN <<SubSeq(s, 1, i - 1)>> \o split(SubSeq(s, i + 1, Len(s)), sep)

\* sep.join(parts)
RECURSIVE join(_, _)
join(sep, parts) ==
    IF parts = <<>> THEN <<>>
    ELSE IF Len(parts) = 1 THEN parts[1]
    ELSE parts[1] \o <<sep>> \o join(sep, Tail(parts))

\* str.count of one character
count(s, c) == Cardinality({i \in 1..Len(s) : s[i] = c})

\* sub in s, for a string sub of two characters
contains(s, sub) ==
    \E i \in 1..(Len(s) - 1) : s[i] = sub[1] /\ s[i + 1] = sub[2]

\* str.decode('string_escape'): backslash t and backslash n become the tab
\* and the newline.
RECURSIVE string_escape(_)
string_escape(s) ==
    IF s = <<>> THEN <<>>
    ELSE IF Len(s) >= 2 /\ s[1] = "\\" /\ s[2] \in {"t", "n"}
    THEN <<IF s[2] = "t" THEN "\t" ELSE "\n">>
         \o string_escape(SubSeq(s, 3, Len(s)))
    ELSE <<s[1]>> \o string_escape(Tail(s))

\* A numpy type: its kind and, for strings, the item size.
NpType(k) == [kind |-> k, size |-> <<>>]

\* nptype2cformat
nptype2cformat(t) ==
    CASE t.kind \in {"float16", "float32", "float64"} ->
             [raised |-> "none", value |-> <<"%", "g">>]
      [] t.kind = "int8" -> [raised |-> "none", value |-> <<"%", "h", "h", "d">>]
      [] t.kind = "short" -> [raised |-> "none", value |-> <<"%", "h", "d">>]
      [] t.kind = "intc" -> [raised |-> "none", value |-> <<"%", "d">>]
      [] t.kind = "int_" -> [raised |-> "none", value |-> <<"%", "l", "d">>]
      [] t.kind = "uint8" -> [raised |-> "none", value |-> <<"%", "h", "h", "u">>]
      [] t.kind = "ushort" -> [raised |-> "none", value |-> <<"%", "h", "u">>]
      [] t.kind = "uintc" -> [raised |-> "none", value |-> <<"%", "u">>]
      [] t.kind = "uint64" -> [raised |-> "none", value |-> <<"%", "l", "u">>]
      [] t.kind = "S" ->
             [raised |-> "none",
              value |-> IF t.size = <<>> THEN <<"%", "s">>
                        ELSE <<"%">> \o t.size \o <<"s">>]
      [] OTHER -> [raised |-> "ValueError", value |-> <<>>]

\* cformat2nptype
cformat2nptype(cfmt) ==
    IF cfmt = <<>> \/ cfmt[1] # "%" \/ Len(cfmt) = 1
    THEN [raised |-> "ValueError", value |-> NpType("none")]
    ELSE LET cc == cfmt[Len(cfmt)]
             c2 == cfmt[Len(cfmt) - 1]
         IN CASE cc \in {"f", "F", "e", "E", "g", "G"} ->
                     [raised |-> "none", value |-> NpType("float64")]
              [] cc \in {"d", "i"} ->
                     [raised |-> "none",
                      value |-> NpType(
                          IF contains(cfmt, <<"h", "h">>) THEN "int8"
                          ELSE IF c2 = "h" THEN "short"
                          ELSE IF contains(cfmt, <<"l", "l">>) THEN "longlong"
                          ELSE IF c2 = "l" THEN "int_"
                          ELSE "intc")]
              [] cc \in {"u", "o", "x", "X"} ->
                     [raised |-> "none",
                      value |-> NpType(
                          IF contains(cfmt, <<"h", "h">>) THEN "uint8"
                          ELSE IF c2 = "h" THEN "ushort"
                          ELSE IF contains(cfmt, <<"l", "l">>) THEN "ulonglong"
                          ELSE IF c2 = "l" THEN "uint64"
                          ELSE "uintc")]
              [] cc \in {"c", "s"} ->
                     [raised |-> "none",
                      value |-> [kind |-> "S",
                                 size |-> SubSeq(cfmt, 2, Len(cfmt) - 1)]]
              [] OTHER -> [raised |-> "ValueError", value |-> NpType("none")]

\* Format strings a caller gives, as written in a configuration: the
\* separators are escape sequences.
GivenFormats ==
    {<<"%", "d", "\\", "n">>,
     <<"%", "l", "d", "\\", "t", "%", "5", ".", "2", "f", "\\", "n">>,
     <<"%", "5", "s", "\\", "t", "%", "d", "\\", "t", "%", "g", "\\", "n">>}

\* The same as strings of the program.
FormatStrings == {string_escape(f) : f \in GivenFormats}

\* Structured dtypes a caller gives: the types of the fields.
GivenDtypes ==
    {<<NpType("float32")>>,
     <<NpType("intc"), [kind |-> "S", size |-> <<"5">>]>>,
     <<NpType("int_"), NpType("float64"), NpType("uint8")>>}

\* np.dtype of a list of field types: the fields are named f0, f1, ...
np_dtype(types) ==
    [i \in 1..Len(types) |-> [name |-> <<"f", i - 1>>, type |-> types[i]]]

\* property format_str: the cached string, else the string made from the
\* dtype, else RuntimeError.
format_str(t) ==
    IF t.has_format_str
    THEN [raised |-> "none", value |-> t._format_str]
    ELSE IF t.has_dtype
    THEN LET cf == [i \in 1..Len(t._dtype) |->
                       nptype2cformat(t._dtype[i].type)]
         IN IF \E i \in 1..Len(cf) : cf[i].raised # "none"
            THEN [raised |-> "ValueError", value |-> <<>>]
            ELSE [raised |-> "none",
                  value |-> join(column, [i \in 1..Len(cf) |-> cf[i].value])
                            \o <<newline>>]
    ELSE [raised |-> "RuntimeError", value |-> <<>>]

\* property fmts
fmts(t) ==
    LET f == format_str(t) IN
    IF f.raised # "none" THEN [raised |-> f.raised, value |-> <<>>]
    ELSE [raised |-> "none",
          value |-> split(split(f.value, newline)[1], column)]

\* property ncols
ncols(t) ==
    LET f == format_str(t) IN
    IF f.raised # "none" THEN [raised |-> f.raised, value |-> 0]
    ELSE [raised |-> "none", value |-> count(f.value, "%")]

\* property dtype: the cached dtype, else the dtype made from fmts.
dtype(t) ==
    IF t.has_dtype
    THEN [raised |-> "none", value |-> t._dtype]
    ELSE LET f == fmts(t) IN
         IF f.raised # "none" THEN [raised |-> f.raised, value |-> <<>>]
         ELSE LET typs == [i \in 1..Len(f.value) |->
                             cformat2nptype(f.value[i])]
              IN IF \E i \in 1..Len(typs) : typs[i].raised # "none"
                 THEN [raised |-> "ValueError", value |-> <<>>]
                 ELSE [raised |-> "none",
                       value |-> np_dtype([i \in 1..Len(typs) |->
                                              typs[i].value])]

\* Variant of AsciiTable__init__: a table without format and dtype is made
\* all the same.
AsciiTable__init__lenient(t, mode, with_format, fmt, with_dtype, dt) ==
    IF with_format
    THEN [t EXCEPT !.table = "made", !.io_mode = mode,
                   !.has_format_str = TRUE,
                   !._format_str = string_escape(fmt)]
    ELSE IF with_dtype
    THEN [t EXCEPT !.table = "made", !.io_mode = mode,
                   !.has_dtype = TRUE, !._dtype = np_dtype(dt)]
    ELSE [t EXCEPT !.table = "made", !.io_mode = mode]

\* AsciiTable.__init__ for io_mode 'w' or None: the format string when one
\* is given, else the dtype when one is given, else RuntimeError.
AsciiTable__init__(t, mode, with_format, fmt, with_dtype, dt) ==
    IF with_format
    THEN [t EXCEPT !.table = "made", !.io_mode = mode,
                   !.has_format_str = TRUE,
                   !._format_str = string_escape(fmt)]
    ELSE IF with_dtype
    THEN [t EXCEPT !.table = "made", !.io_mode = mode,
                   !.has_dtype = TRUE, !._dtype = np_dtype(dt)]
    ELSE [t EXCEPT !.table = "failed", !.io_mode = mode,
                   !.table_raised = "RuntimeError"]

\* A caller makes an AsciiTable.
new_table ==
    /\ tab.table = "none"
    /\ \E mode \in {"w", "None"}, with_format \in BOOLEAN,
          fmt \in GivenFormats, with_dtype \in BOOLEAN, dt \in GivenDtypes :
          tab' = [AsciiTable__init__(tab, mode, with_format, fmt,
                                     with_dtype, dt)
                    EXCEPT !.made_by = "direct",
                           !.arg_format_str = with_format,
                           !.arg_dtype = with_dtype]
    /\ UNCHANGED not_tab_vars

\* AsciiTableOutputDriver.__init__: format_str and dtype go to the keywords
\* of the output comm, 'temp' stands for a format_str that is not given, and
\* the comm makes its file, an AsciiTable in write mode.
AsciiTableOutputDriver__init__ ==
    /\ tab.table = "none"
    /\ \E with_format \in BOOLEAN, fmt \in GivenFormats,
          with_dtype \in BOOLEAN, dt \in GivenDtypes :
          LET format_kw == IF with_format THEN fmt ELSE <<"t", "e", "m", "p">>
              t == AsciiTable__init__(tab, "w", TRUE, format_kw,
                                      with_dtype, dt)
          IN tab' = [t EXCEPT !.made_by = "driver",
                              !.arg_format_str = with_format,
                              !.arg_dtype = with_dtype,
                              !.driver_pc = IF t.table = "made" THEN "created"
                                            ELSE "none"]
    /\ UNCHANGED not_tab_vars

\* Variant of update_format_str: the dtype stays.
update_format_str_keep(t, new_format_str) ==
    [t EXCEPT !._format_str = new_format_str, !.has_format_str = TRUE]

\* AsciiTable.update_format_str
update_format_str(t, new_format_str) ==
    [t EXCEPT !._format_str = new_format_str, !.has_format_str = TRUE,
              !.has_dtype = FALSE, !._dtype = <<>>]

\* AsciiTable.update_dtype
update_dtype(t, new_dtype) ==
    [t EXCEPT !._dtype = new_dtype, !.has_dtype = TRUE,
              !.has_format_str = FALSE, !._format_str = <<>>]

\* A caller sets a new format string.
call_update_format_str ==
    /\ tab.table = "made"
    /\ \E f \in FormatStrings :
          tab' = [update_format_str(tab, f) EXCEPT !.table_raised = "none"]
    /\ UNCHANGED not_tab_vars

\* A caller sets a new dtype.
call_update_dtype ==
    /\ tab.table = "made"
    /\ \E dt \in GivenDtypes :
          tab' = [update_dtype(tab, np_dtype(dt)) EXCEPT !.table_raised = "none"]
    /\ UNCHANGED not_tab_vars

\* A caller reads the property format_str, which keeps what it made.
read_format_str ==
    /\ tab.table = "made"
    /\ LET f == format_str(tab) IN
       IF f.raised # "none"
       THEN tab' = [tab EXCEPT !.table_raised = f.raised]
       ELSE tab' = [tab EXCEPT !.table_raised = "none",
                               !.has_format_str = TRUE,
                               !._format_str = f.value]
    /\ UNCHANGED not_tab_vars

\* A caller reads the property dtype, which keeps what it made.
read_dtype ==
    /\ tab.table = "made"
    /\ LET d == dtype(tab) IN
       IF d.raised # "none"
       THEN tab' = [tab EXCEPT !.table_raised = d.raised]
       ELSE tab' = [tab EXCEPT !.table_raised = "none",
                               !.has_dtype = TRUE,
                               !._dtype = d.value]
    /\ UNCHANGED not_tab_vars

\* Messages a model sends to the driver: format strings, a row, the empty
\* message.
TableRow == <<"1", "\t", "2", "\n">>

TableMsgs == FormatStrings \cup {TableRow, <<>>}

\* The model sends a message to the driver's input.
table_send ==
    /\ tab.driver_pc # "none"
    /\ Len(tab.table_icomm) < MaxRows + 1
    /\ \E m \in TableMsgs :
          tab' = [tab EXCEPT !.table_icomm = Append(tab.table_icomm, m)]
    /\ UNCHANGED not_tab_vars

\* AsciiTableOutputDriver.recv_message: the next message of the input, or
\* False when there is none.
table_recv_message(t) ==
    IF t.table_nrecv < Len(t.table_icomm)
    THEN [flag |-> TRUE, msg |-> t.table_icomm[t.table_nrecv + 1],
          nrecv |-> t.table_nrecv + 1]
    ELSE [flag |-> FALSE, msg |-> <<>>, nrecv |-> t.table_nrecv]

\* AsciiTable.writeformat: the comment string, a space and the format string.
writeformat(t) ==
    [t EXCEPT !.file_lines =
                  Append(t.file_lines, <<comment, " ">> \o format_str(t).value)]

\* Variant of before_loop: the format line is written before the message is
\* looked at.
before_loop_unchecked ==
    /\ tab.driver_pc = "created"
    /\ LET fmt == table_recv_message(tab)
           t == [tab EXCEPT !.table_nrecv = fmt.nrecv]
       IN IF ~fmt.flag \/ fmt.msg = <<>>
          THEN tab' = [writeformat(t) EXCEPT !.driver_pc = "error",
                                             !.table_raised = "RuntimeError"]
          ELSE tab' = [writeformat(update_format_str(t, fmt.msg))
                         EXCEPT !.driver_pc = "loop", !.table_raised = "none"]
    /\ UNCHANGED not_tab_vars

\* AsciiTableOutputDriver.before_loop: the first message received is the
\* format string; without one RuntimeError, else, under the lock, the file
\* takes it and writes the format line.
before_loop ==
    /\ tab.driver_pc = "created"
    /\ LET fmt == table_recv_message(tab)
           t == [tab EXCEPT !.table_nrecv = fmt.nrecv]
       IN IF ~fmt.flag \/ fmt.msg = <<>>
          THEN tab' = [t EXCEPT !.driver_pc = "error",
                                !.table_raised = "RuntimeError"]
          ELSE tab' = [writeformat(update_format_str(t, fmt.msg))
                         EXCEPT !.driver_pc = "loop", !.table_raised = "none"]
    /\ UNCHANGED not_tab_vars

\* The loop of the driver after before_loop: a message received is
\* forwarded to the output comm, which writes it to the file as a row.
table_run_loop ==
    /\ tab.driver_pc = "loop"
    /\ LET m == table_recv_message(tab) IN
       /\ m.flag
       /\ tab' = [tab EXCEPT !.table_nrecv = m.nrecv,
                             !.file_lines = IF m.msg = <<>> THEN tab.file_lines
                                            ELSE Append(tab.file_lines, m.msg)]
    /\ UNCHANGED not_tab_vars

NextAsciiTable ==
    \/ new_table
    \/ AsciiTableOutputDriver__init__
    \/ call_update_format_str
    \/ call_update_dtype
    \/ read_format_str
    \/ read_dtype
    \/ table_send
    \/ before_loop
    \/ table_run_loop

SpecAsciiTable == Init /\ [][NextAsciiTable]_vars

\* ================================================================ claims
\* Bodies of the messages sent on the output channel.
OcommBody(j) == Join(ocomm_sent[j].chunks)
\* How many times the EOF message has been sent on the output channel.
EofForwarded == Cardinality({j \in 1..Len(ocomm_sent) : OcommBody(j) = EOF_MSG})
\* Requests (neither EOF nor sign-on) sent on the output channel.
NonEofForwarded == Cardinality({j \in 1..Len(ocomm_sent) : OcommBody(j) # EOF_MSG})
\* Sign-ons and EOFs the clients have put on the request channel.
Signons(n) == {i \in 1..n : icomm_sent[i].body = CIS_CLIENT_INI}
Eofs(n) == {i \in 1..n : icomm_sent[i].body = EOF_MSG}
NSignonSent == Cardinality(Signons(Len(icomm_sent)))
NEofSent == Cardinality(Eofs(Len(icomm_sent)))
\* Every sign-on on the channel comes before every EOF.
SignonsFirst == \A i \in Signons(Len(icomm_sent)), j \in Eofs(Len(icomm_sent)) : i < j

\* C1 as stated: whatever the interleaving of N sign-ons and N sign-offs, the
\* EOF is forwarded downstream exactly once and only after the Nth sign-off.
C1_EofOnlyAfterNthSignoff ==
    (NSignonSent = NEofSent /\ EofForwarded > 0)
        => (EofForwarded = 1 /\ nsignoff = NEofSent)

\* C1 amended: the EOF is forwarded at most once, by the first sign-off whose
\* decrement leaves nclients at 0 (as many sign-offs as sign-ons handled),
\* after which the pump has halted; when all the sign-ons come before the
\* sign-offs that is the sign-off matching the last sign-on.
C1_EofForwardedOnceAtZero ==
    /\ EofForwarded <= 1
    /\ (pc \in {"send", "base_send"} /\ msg = EOF_MSG)
           => (nclients = 0 /\ nsignoff = nsignon /\ nsignoff >= 1)
    /\ EofForwarded = 1
           => /\ nclients = 0 /\ nsignoff = nsignon /\ nsignoff >= 1
              /\ pc = "done" /\ state = "STOPPED" /\ ~ocomm_open
              /\ SignonsFirst => nsignoff = NSignonSent

C1_Witness == EofForwarded = 1 /\ nsignoff = 2 /\ pc = "done"

\* C2: nclients >= 0 in every reachable state.
C2_NclientsNonNegative == nclients >= 0

\* C3: a sign-off decrements nclients by one; the EOF is handed on to the
\* output comm only when that leaves 0, otherwise on_eof returns the empty
\* message and nothing is sent; an EOF reaches the output comm only with
\* nclients at 0.
C3_EofAbsorbedUntilZero ==
    [][/\ (nsignoff' = nsignoff + 1)
            => /\ nclients' = nclients - 1
               /\ IF nclients' = 0
                  THEN msg' = EOF_MSG /\ pc' = "send"
                  ELSE msg' = <<>> /\ pc' = "recv" /\ ocomm_sent' = ocomm_sent
       /\ (ocomm_sent' # ocomm_sent /\ EofForwarded' > EofForwarded)
            => nclients = 0]_vars

C3_Witness ==
    /\ nsignon = 2 /\ nsignoff = 1 /\ nclients = 1
    /\ pc = "recv" /\ EofForwarded = 0

\* C4: nclients is the number of sign-ons handled minus the number of
\* sign-offs handled.
C4_NclientsIsSignonsMinusSignoffs == nclients = nsignon - nsignoff

C4_Witness == nsignon = 2 /\ nsignoff = 2 /\ nclients = 0

\* C5: a sign-on is counted and swallowed: the sign-ons received are the
\* clients counted plus the sign-offs handled, no sign-on is ever handed to
\* send_message or sent on the output comm, and no response driver is
\* created for one.
C5_SignonSwallowed ==
    /\ nclients + nsignoff = Cardinality(Signons(nrecv))
    /\ pc \in {"send", "base_send"} => msg # CIS_CLIENT_INI
    /\ \A j \in 1..Len(ocomm_sent) : OcommBody(j) # CIS_CLIENT_INI
    /\ \A k \in 1..Len(response_drivers) :
           icomm_sent[response_drivers[k].msg_id].body # CIS_CLIENT_INI

C5_Witness ==
    /\ nsignon >= 1 /\ nrecv >= 2 /\ pc = "recv"
    /\ Len(ocomm_sent) = 1 /\ Len(response_drivers) = 1

\* C6: a sign-off arriving with nclients at 0 stops the driver with an error
\* and leaves no negative count.
C6_SignoffAtZeroFails ==
    [][(nsignoff' = nsignoff + 1 /\ nclients = 0)
           => (state' = "STOPPED" /\ nclients' >= 0)]_vars

\* C7: a send_message with a response address other than 'EOF' and the comm
\* open appends exactly one started response driver bound to that address
\* and to the request id; any other send_message leaves response_drivers as
\* it is; so response_drivers has one entry per request handed on (as many
\* as the output comm got, once the send is through and while terminate has
\* not closed the comm).
C7_OneResponseDriverPerRequest ==
    /\ [][(pc \in {"send", "locked"} /\ pc' # pc)
              => IF pc = "locked" /\ response_address # EOF_ADDR /\ is_comm_open
                 THEN /\ Len(response_drivers') = Len(response_drivers) + 1
                      /\ SubSeq(response_drivers', 1, Len(response_drivers))
                             = response_drivers
                      /\ LET d == response_drivers'[Len(response_drivers')] IN
                           /\ d.address = response_address
                           /\ d.msg_id = request_id
                           /\ d.started /\ ~d.terminated
                      /\ pc' = "base_send"
                 ELSE response_drivers' = response_drivers]_vars
    /\ [](/\ Len(response_drivers) >= NonEofForwarded
          /\ (pc # "base_send" /\ tpc \in {"idle", "base"})
                 => Len(response_drivers) = NonEofForwarded)

C7_Witness ==
    /\ Len(response_drivers) = 2 /\ NonEofForwarded = 2
    /\ EofForwarded = 1

\* C8: a request sent on the output comm carries the id of the request just
\* received and, as response address, the listening address of the response
\* driver just created for it, not the client's response address.
C8_ForwardedHeader ==
    [][(Len(ocomm_sent') = Len(ocomm_sent) + 1 /\ msg # EOF_MSG)
           => LET m == ocomm_sent'[Len(ocomm_sent')]
                  d == response_drivers[Len(response_drivers)]
              IN /\ m.header.id = icomm_sent[nrecv].header.id
                 /\ m.header.response_address = d.model_response_address
                 /\ m.header.response_address.kind = "model"
                 /\ m.header.response_address
                        # icomm_sent[nrecv].header.response_address
                 /\ d.msg_id = m.header.id]_vars

C8_Witness ==
    \E j \in 1..Len(ocomm_sent) :
        /\ OcommBody(j) # EOF_MSG
        /\ ocomm_sent[j].header.response_address.kind = "model"

\* C9: every response driver is bound to the response address and the id of
\* one and the same request, and a reply delivered on a client's response
\* address is the reply to the request that named that address.
C9_ReplyRoutedToRequester ==
    /\ \A k \in 1..Len(response_drivers) :
           LET d == response_drivers[k]
               r == icomm_sent[d.msg_id]
           IN /\ d.msg_id \in 1..nrecv
              /\ r.header.id = d.msg_id
              /\ d.address = r.header.response_address
              /\ d.address.kind = "client"
    /\ \A k1, k2 \in 1..Len(response_drivers) :
           response_drivers[k1].address = response_drivers[k2].address => k1 = k2
    /\ \A x \in delivered :
           /\ x.to = icomm_sent[x.id].header.response_address
           /\ x.to.kind = "client" /\ x.to.req = x.id
           /\ \A y \in delivered : y.to = x.to => y = x

C9_Witness ==
    \E x, y \in delivered : x.to.client # y.to.client

\* C10: what the server model receives is the body the client sent, and the
\* reply delivered to the client is the body the model sent back, for the
\* short message and for the one longer than the size limit.
C10_BodiesUnchanged ==
    /\ \A j \in 1..Len(ocomm_sent) :
           OcommBody(j) # EOF_MSG
               => OcommBody(j) = icomm_sent[ocomm_sent[j].header.id].body
    /\ \A k \in 1..Len(response_drivers) :
           response_drivers[k].reply # <<>>
               => Join(response_drivers[k].reply)
                      = icomm_sent[response_drivers[k].msg_id].body
    /\ \A x \in delivered : x.body = icomm_sent[x.id].body

C10_Witness ==
    \E x, y \in delivered : x.body = msg_short /\ y.body = msg_long

\* C11: terminate() terminates every driver in response_drivers, leaving the
\* comms and the driver state alone, and only then runs the parent's
\* teardown: the comms are closed by terminate() only after that loop.
C11_SweepBeforeBaseTeardown ==
    [][/\ (tpc \in {"idle", "done"} /\ tpc' # tpc)
            => /\ tpc' \in {"base", "base_again"}
               /\ Len(response_drivers') = Len(response_drivers)
               /\ \A k \in 1..Len(response_drivers) :
                      /\ response_drivers'[k].terminated
                      /\ response_drivers'[k].address = response_drivers[k].address
               /\ UNCHANGED <<icomm_open, ocomm_open, state>>
       /\ (tpc' = "done" /\ tpc # "done")
            => /\ tpc \in {"base", "base_again"}
               /\ ~icomm_open' /\ ~ocomm_open' /\ state' = "STOPPED"]_vars

C11_Witness ==
    /\ tpc = "done" /\ Len(response_drivers) = 2
    /\ \A k \in 1..Len(response_drivers) : response_drivers[k].terminated

\* C12: once terminate() has returned, every response driver that was
\* started has been terminated.
C12_NoDriverLeftAfterTerminate ==
    tpc = "done"
        => \A k \in 1..Len(response_drivers) :
               response_drivers[k].started => response_drivers[k].terminated

\* C14: in send_message the lock is held from the open check until the
\* message is sent on the output comm, so that the comm found open by the
\* check is still open when the parent's send_message is reached.
C14_CommOpenFromCheckToSend ==
    (pc = "base_send" /\ response_address # EOF_ADDR) => is_comm_open

\* C15: every step that changes nclients or the length of response_drivers
\* is taken by the pump thread holding the lock, and terminate's loop over
\* response_drivers is run by a thread holding the lock.
C15_UpdatesUnderLock ==
    [][/\ (nclients' # nclients \/ Len(response_drivers') # Len(response_drivers))
            => lock = "pump"
       /\ (tpc \in {"idle", "done"} /\ tpc' # tpc) => lock = "terminate"]_vars

\* C13: a second terminate() raises no error and changes nothing the first
\* one set: every step of a repeated call leaves the response drivers, the
\* two comms and the driver state as the first call left them.
C13_SecondTerminateChangesNothing ==
    [][(tpc \in {"done", "base_again"} /\ tpc' # tpc)
           => UNCHANGED <<response_drivers, icomm_open, ocomm_open, state>>]_vars

\* C16: on a Comm pair, a send or send_nolimit that puts the EOF message on
\* the channel returns False and leaves the sender closed, and the recv or
\* recv_nolimit that takes the EOF message from the channel returns False
\* together with the EOF message and leaves the receiver closed.
C16_EofClosesBothEnds ==
    [][/\ (~send_closed /\ send_ret'.msg = EOF_MSG /\ <<send_ret, nput>>' # <<send_ret, nput>>)
            => /\ chan' = Append(chan, Chunks(EOF_MSG))
               /\ ~send_ret'.flag
               /\ send_closed'
       /\ (~recv_closed /\ chan # <<>> /\ Head(chan) = Chunks(EOF_MSG)
              /\ chan' = Tail(chan))
            => /\ recv_ret'.msg = EOF_MSG
               /\ ~recv_ret'.flag
               /\ recv_closed']_vars

C16_Witness ==
    /\ send_ret = [msg |-> EOF_MSG, flag |-> FALSE, nolimit |-> TRUE]
    /\ recv_ret = [msg |-> EOF_MSG, flag |-> FALSE, nolimit |-> TRUE]
    /\ send_closed /\ recv_closed

\* C17: a closed comm stays closed, and a send or recv on a closed comm
\* returns False and moves no message.
C17_ClosedIsAbsorbing ==
    [][/\ send_closed => send_closed'
       /\ recv_closed => recv_closed'
       /\ (send_closed /\ send_ret' # send_ret)
            => (~send_ret'.flag /\ chan' = chan)
       /\ (recv_closed /\ recv_ret' # recv_ret)
            => (~recv_ret'.flag /\ chan' = chan)]_vars

C17_Witness ==
    /\ send_closed /\ recv_closed /\ chan # <<>>
    /\ send_ret = [msg |-> msg_short, flag |-> FALSE, nolimit |-> FALSE]
    /\ recv_ret = [msg |-> <<>>, flag |-> FALSE, nolimit |-> FALSE]

\* C18: the driver state only moves forward, CREATED to RUNNING to STOPPED
\* (or CREATED to STOPPED); messages are received and sent on only while it
\* is RUNNING; once STOPPED it stays STOPPED and sends nothing more.
C18_LifecycleForward ==
    [][/\ state' # state
            => <<state, state'>> \in {<<"CREATED", "RUNNING">>,
                                      <<"RUNNING", "STOPPED">>,
                                      <<"CREATED", "STOPPED">>}
       /\ (nrecv' # nrecv \/ ocomm_sent' # ocomm_sent) => state = "RUNNING"
       /\ state = "STOPPED" => (state' = "STOPPED" /\ ocomm_sent' = ocomm_sent)]_vars

C18_Witness ==
    /\ state = "STOPPED" /\ pc = "done" /\ tpc = "done"
    /\ Len(ocomm_sent) >= 1 /\ nrecv > Len(ocomm_sent)
    /\ nrecv < Len(icomm_sent)

\* C19: in a driver with the base hooks, receiving the EOF message calls
\* on_eof and hands the EOF message to send_message; when it is sent on the
\* output comm the loop ends and the driver is stopped; what the output comm
\* got is, in order, what was received, the EOF message last.
C19_BaseEofPropagated ==
    /\ [][/\ nsignoff' = nsignoff + 1
               => (msg' = EOF_MSG /\ pc' = "base_send")
          /\ (pc = "base_send" /\ msg = EOF_MSG /\ ocomm_open /\ pc' # pc)
               => /\ Len(ocomm_sent') = Len(ocomm_sent) + 1
                  /\ Join(ocomm_sent'[Len(ocomm_sent')].chunks) = EOF_MSG
                  /\ pc' = "done" /\ state' = "STOPPED"]_vars
    /\ [](/\ \A j \in 1..Len(ocomm_sent) : OcommBody(j) = icomm_sent[j].body
          /\ EofForwarded = 1
               => /\ Len(ocomm_sent) = nrecv
                  /\ OcommBody(Len(ocomm_sent)) = EOF_MSG
                  /\ pc = "done" /\ state = "STOPPED")

C19_Witness ==
    /\ EofForwarded = 1 /\ Len(ocomm_sent) = 3
    /\ nrecv < Len(icomm_sent) /\ pc = "done"

\* C20: once stop_communication has been called on a running driver, whose
\* loop may be waiting in recv with nothing to receive, the loop ends and
\* the driver reaches the stopped state.
C20_StopCommunicationStops ==
    (tpc = "done" /\ state = "RUNNING") ~> (pc = "done" /\ state = "STOPPED")

C20_Witness ==
    /\ tpc = "done" /\ state = "RUNNING"
    /\ pc = "recv" /\ nrecv = Len(icomm_sent) /\ nrecv >= 1

C22_ClosedSendDroppedRecvRetried ==
    [][/\ (pc = "locked" /\ ~is_comm_open /\ pc' # pc)
            => /\ pc' = "recv"
               /\ UNCHANGED <<response_drivers, ocomm_sent, state, icomm_open,
                              ocomm_open>>
       /\ ~ocomm_open => ocomm_sent' = ocomm_sent
       /\ ~is_comm_open => Len(response_drivers') = Len(response_drivers)
       /\ nfail' = nfail + 1
            => /\ state = "RUNNING" /\ state' = "RUNNING"
               /\ pc' = "recv"
               /\ UNCHANGED <<nrecv, icomm_sent, icomm_open, ocomm_open>>]_vars

C22_Witness ==
    /\ tpc = "done" /\ pc = "recv"
    /\ nrecv - nsignon - nsignoff > Len(response_drivers)
    /\ Len(ocomm_sent) = Len(response_drivers)
    /\ Len(response_drivers) >= 1

\* C23: what publish_message has published is, message for message and in
\* order, the beginning of what was put on the local queue, whatever the
\* number of times it found the queue empty and was called again; so no
\* message is published twice or out of order.
C23_PublishedInOrder ==
    /\ Len(published) <= Len(ipc_sent)
    /\ \A j \in 1..Len(published) : published[j] = ipc_sent[j]
    /\ ipc_taken \in {Len(published), Len(published) + 1}

C23_Witness ==
    /\ Len(published) = 3 /\ rmq_pc = "scheduled"
    /\ published[1].body = msg_long /\ published[2].body = msg_short
    /\ ~rmq_closing

\* C24: after an unexpected disconnect the comm either reconnects before the
\* timeout, and then times_connected is greater than it was before the
\* disconnect, or the timeout passes and the condition is fatal for the
\* driver; times_connected never decreases.
C24_ReconnectOrFatal ==
    /\ [][/\ times_connected' >= times_connected
          /\ (rc_conn = "reconnecting" /\ rc_conn' = "open")
                => (times_connected' > rc_before
                    /\ rc_elapsed < ReconnectTimeout)
          /\ (rc_conn = "reconnecting" /\ rc_elapsed = ReconnectTimeout)
                => rc_conn' = "fatal"
          /\ rc_conn = "fatal" => rc_conn' = "fatal"]_vars
    /\ (rc_conn = "reconnecting")
          ~> \/ rc_conn = "open" /\ times_connected > rc_before
             \/ rc_conn = "fatal"

C24_Witness ==
    /\ rc_conn = "open"
    /\ times_connected = 3
    /\ rc_before = 2
    /\ rc_elapsed = 4
    /\ rc_attempts = MaxRetries

\* C25: new_comm for an RMQAsyncComm while no broker server is running ends
\* with a RuntimeError and constructs no comm object.
C25_NoBrokerNoComm ==
    [][(new_comm_calls' # new_comm_calls /\ ~broker_running)
          => (new_comm_ret' = "RuntimeError" /\ comms' = comms)]_vars

C25_Witness ==
    /\ ~broker_running
    /\ new_comm_ret = "RuntimeError"
    /\ new_comm_calls = 2
    /\ Len(comms) = 1

\* C26: as long as the driver has received no message, reading request_id or
\* response_address raises AttributeError and gives no value.
C26_ErrorAttributesBeforeRecv ==
    nrecv = 0 =>
        \A k \in {"request_id", "response_address"} :
            getattr(k).raised = "AttributeError"

\* The driver is running and a client has sent, but nothing was received yet.
C26_Witness ==
    /\ nrecv = 0
    /\ state = "RUNNING"
    /\ Len(icomm_sent) >= 1
    /\ getattr("response_address").raised = "AttributeError"

\* C30: the registry holds exactly one class for each registered name, and a
\* registration never removes a name, also when the class registered declares
\* _replaces_existing and its name is present already (JSONObjectMetaschemaType,
\* 'object').
C30_RegistryUniqueAndGrowing ==
    [][/\ \A p, q \in _type_registry' : p[1] = q[1] => p = q
       /\ registered_names(_type_registry) \subseteq
              registered_names(_type_registry')]_vars

\* 'object' was given to another class and JSONObjectMetaschemaType was then
\* registered over it.
C30_Witness ==
    /\ nregistered = 3
    /\ register_ret = "ok"
    /\ replaced = "TypeA"
    /\ <<"object", "JSONObjectMetaschemaType">> \in _type_registry
    /\ <<"array", "TypeB">> \in _type_registry

\* C27: for a container typedef T and an object v valid under T, decoding the
\* encoded object with T gives v again, also for dicts within dicts.
C27_RoundTrip ==
    (ms_pc = "done" /\ Valid(ms_obj, ms_typedef))
        => (ms_decoded.ok /\ ms_decoded.val = ms_obj)

\* Element k of the encoded container has no entry in the property map of the
\* container typedef.
MissingEntry(k) ==
    /\ k \in DOMAIN ms_encoded.items
    /\ "properties" \in ms_typedef.keys
    /\ k \notin DOMAIN ms_typedef.properties

\* C28: decode_data of an encoded container with an element whose index has
\* no entry in the typedef's property map does not raise a lookup error.
C28_MissingEntryFallsBack ==
    (ms_pc = "done" /\ \E k \in Keys : MissingEntry(k))
        => ms_decoded.err # "KeyError"

\* Element k of the encoded container has an entry in the property map whose
\* type is not registered.
UnregisteredEntry(k) ==
    /\ k \in DOMAIN ms_encoded.items
    /\ "properties" \in ms_typedef.keys
    /\ k \in DOMAIN ms_typedef.properties
    /\ ms_typedef.properties[k].type \notin registered_names(_type_registry)

\* Decoding element k alone fails.
ElementFails(k) ==
    ~decode_data([kind |-> "dict",
                  items |-> [x \in {k} |-> ms_encoded.items[x]]],
                 ms_typedef, _type_registry, <<"a", "b">>).ok

\* C29: the lookup of a name that is not registered is a type-resolution
\* error, and decode_data of a container with an element whose typedef names
\* such a type fails: with that error, unless another element failed before
\* it; a container without the element is never returned.
C29_UnregisteredTypeFails ==
    /\ \A n \in TypeNames \ registered_names(_type_registry) :
          get_type_class(_type_registry, n) =
              [ok |-> FALSE, cls |-> "TypeResolutionError"]
    /\ ms_pc = "done" =>
          \A k \in Keys : UnregisteredEntry(k) =>
              /\ ~ms_decoded.ok
              /\ \/ ms_decoded.err = "TypeResolutionError"
                 \/ \E k2 \in Keys \ {k} :
                       k2 \in DOMAIN ms_encoded.items /\ ElementFails(k2)

\* Element a is a decodable dict and element b names an unregistered type.
C29_Witness ==
    /\ ms_pc = "done"
    /\ UnregisteredEntry("b")
    /\ DOMAIN ms_encoded.items = {"a", "b"}
    /\ ms_encoded.items["a"].kind = "dict"
    /\ ~ElementFails("a")
    /\ ms_decoded.err = "TypeResolutionError"


\* C35: once stop_communication has set _closing nothing more is published,
\* whatever the interleaving of the publishing loop and the stopping thread,
\* and channel.close() is called at most once however many times
\* stop_communication is called.
C35_NoPublishAfterClosing ==
    /\ [](nclose <= 1)
    /\ [][rmq_closing => published' = published]_vars

C35_Witness ==
    /\ nstop = MaxStops /\ nclose = 1 /\ rmq_closing
    /\ rmq_pc = "returned" /\ ipc_taken = Len(published) + 1

\* C36: every message publish_message takes with ipc_recv is published,
\* unless the driver is closing when the message comes to be published: that
\* message is neither published nor put back on the local queue.
C36_TakenPublishedUnlessClosing ==
    /\ [](rmq_pc \in {"start", "recv", "scheduled"}
            => ipc_taken = Len(published))
    /\ [](rmq_pc = "publish" => ipc_taken = Len(published) + 1)
    /\ [](ipc_taken # Len(published) /\ rmq_pc = "returned" => rmq_closing)
    /\ [][(rmq_pc = "publish" /\ ~rmq_closing /\ rmq_pc' # "publish")
            => published' = Append(published, ipc_sent[ipc_taken])]_vars
    /\ [][(rmq_pc = "publish" /\ rmq_closing /\ rmq_pc' # "publish")
            => (/\ published' = published
                /\ ipc_taken' = ipc_taken
                /\ ipc_sent' = ipc_sent
                /\ rmq_pc' = "returned")]_vars

C36_Witness ==
    /\ rmq_pc = "returned" /\ rmq_closing
    /\ Len(published) = 1 /\ ipc_taken = 2 /\ Len(ipc_sent) = 3

\* C37: at most one publish_message callback is pending at any time; an
\* invocation that ends on a closed queue or on _closing sets no callback,
\* one that ends on an empty receive sets exactly one; so once the local
\* queue is closed the pump stops and is not called again.
C37_OnePendingCallback ==
    /\ [](pending <= 1)
    /\ [](pending = 1 <=> rmq_pc = "scheduled")
    /\ [][rmq_pc = "returned" => (rmq_pc' = "returned" /\ pending' = 0)]_vars
    /\ [][(rmq_pc = "recv" /\ rmq_pc' = "scheduled")
             => (pending' = pending + 1 /\ ipc_taken = Len(ipc_sent)
                 /\ ~ipc_closed)]_vars
    /\ ipc_closed ~> (rmq_pc = "returned" /\ pending = 0)

C37_Witness ==
    /\ ipc_closed /\ rmq_pc = "returned" /\ ~rmq_closing
    /\ Len(published) = 2 /\ pending = 0


\* C34: encode_data returns a new container with exactly the keys of the
\* source object, each value being the generic encode_data of the source
\* value with the typedef's entry for that key (no typedef when the typedef
\* has no property map or no entry for the key); the source object and the
\* typedef are as they were.
C34_EncodeKeepsKeys ==
    /\ [](ms_pc \in {"decode", "done"} =>
            /\ ms_encoded.kind = "dict"
            /\ DOMAIN ms_encoded.items = DOMAIN ms_obj.items
            /\ \A k \in DOMAIN ms_obj.items :
                  ms_encoded.items[k] =
                      generic_encode_data(
                          ms_obj.items[k],
                          IF "properties" \in ms_typedef.keys
                             /\ k \in DOMAIN ms_typedef.properties
                          THEN ms_typedef.properties[k]
                          ELSE EmptyTypedef))
    /\ [][ms_pc = "encode" =>
            (ms_obj' = ms_obj /\ ms_typedef' = ms_typedef)]_vars

C34_Witness ==
    /\ ms_pc = "decode"
    /\ DOMAIN ms_obj.items = {"a", "b"}
    /\ ms_obj.items["a"].kind = "dict" /\ ms_obj.items["b"].kind = "int"
    /\ DOMAIN ms_encoded.items = {"a", "b"}
    /\ "properties" \in ms_typedef.keys
    /\ DOMAIN ms_typedef.properties = {"a"}


\* C31: without a user-supplied validate function, validate reports a
\* mismatch by yielding a message and not by raising: nothing when the
\* instance has none of the class's types, else what compare yields for the
\* encoded instance and the schema value, which without a user-supplied
\* compare is one message when the two differ and none when they are equal;
\* with _validate False it yields nothing.
C31_ValidateYields ==
    mp.mp_pc \notin {"input", "called"} =>
        LET matches == \E t \in mp.cls.types : is_type(mp.mp_instance, t) IN
        /\ mp.cls._validate.kind = "False"
              => mp.own = [raised |-> FALSE, errors |-> <<>>]
        /\ (mp.cls._validate.kind = "None" /\ ~matches)
              => mp.own = [raised |-> FALSE, errors |-> <<>>]
        /\ (mp.cls._validate.kind = "None" /\ matches /\ mp.cls._encode # "None")
              => /\ ~mp.own.raised
                 /\ mp.own.errors =
                       compare(mp.cls, encode(mp.cls, mp.mp_instance, mp.mp_value).value,
                               mp.mp_value)
                 /\ mp.cls._compare = "None" =>
                       Len(mp.own.errors) =
                           IF mp.mp_instance.val # mp.mp_value THEN 1 ELSE 0
        /\ mp.own.raised => mp.cls._encode = "None"

C31_Witness ==
    /\ mp.mp_pc = "done" /\ mp.cls._validate.kind = "None" /\ mp.cls._compare = "None"
    /\ mp.mp_instance.val = 1 /\ mp.mp_value = 0
    /\ mp.own.errors = << <<"is not equal to", 1, 0>> >>
    /\ Len(mp.yielded) = 1

\* C32: wrapped_validate yields every error of the class's own validate,
\* and every error of the base validator registered for the property's name
\* when that validator is called, in order; not the first only.
C32_AllErrorsYielded ==
    LET all == IF mp.own.errors # <<>>
               THEN [i \in 1..Len(mp.own.errors) |->
                        ValidationError(mp.own.errors[i])]
               ELSE IF mp.base_ran THEN mp.base_errors ELSE <<>>
    IN /\ Len(mp.yielded) <= Len(all)
       /\ \A i \in 1..Len(mp.yielded) : mp.yielded[i] = all[i]
       /\ mp.mp_pc \in {"finally", "done"} => mp.yielded = all
       /\ (mp.mp_pc \in {"finally", "done"} /\ mp.own.errors = <<>>
             /\ mp.cls.name \in VALIDATORS) => mp.base_ran

C32_Witness ==
    /\ mp.mp_pc = "done"
    /\ Len(mp.own.errors) = 2 /\ Len(mp.yielded) = 2
    /\ mp.yielded[1] # mp.yielded[2]

\* C39: the base validator is called only if the class's validate yielded
\* no error, and post_validate is called exactly when the validator is
\* normalizing and neither has yielded an error: never after an error.
C39_BaseThenPostValidate ==
    /\ [](mp.base_ran => mp.own.errors = <<>>)
    /\ [](mp.mp_pc \in {"done", "raised", "closed"} =>
            (mp.post_validated <=> (mp._normalizing /\ mp.yielded = <<>>)))
    /\ [](mp.post_validated => mp.mp_pc \in {"done", "raised"})
    /\ [][(mp.base_ran' /\ ~mp.base_ran) => (mp.yielded = <<>> /\ ~mp.failed)]_vars
    /\ [][(mp.post_validated' /\ ~mp.post_validated)
            => (mp._normalizing /\ ~mp.failed /\ mp.yielded = <<>>)]_vars

C39_Witness ==
    /\ mp.mp_pc = "done" /\ mp._normalizing /\ mp.base_ran
    /\ mp.base_errors = <<>> /\ mp.post_validated


\* C33 as stated: a write-mode table made without format_str and without
\* dtype fails at construction with RuntimeError, made directly or through
\* AsciiTableOutputDriver.
C33_NoFormatFails ==
    (tab.table # "none" /\ tab.io_mode = "w" /\ ~tab.arg_format_str /\ ~tab.arg_dtype)
        => (tab.table = "failed" /\ tab.table_raised = "RuntimeError")

\* C33, amended: an AsciiTable made directly in write mode without
\* format_str and without dtype fails at construction with RuntimeError and
\* has neither format string nor dtype; an AsciiTableOutputDriver made
\* without format_str gives its table the format string 'temp' and the
\* construction does not fail.
C33_DirectFailsDriverPlaceholder ==
    /\ []((tab.made_by = "direct" /\ ~tab.arg_format_str /\ ~tab.arg_dtype)
            => (/\ tab.table = "failed" /\ tab.table_raised = "RuntimeError"
                /\ ~tab.has_format_str /\ ~tab.has_dtype))
    /\ []((tab.made_by = "direct" /\ (tab.arg_format_str \/ tab.arg_dtype))
            => tab.table = "made")
    /\ [][(tab.table = "none" /\ tab.made_by' = "driver" /\ ~tab.arg_format_str')
            => (/\ tab.table' = "made" /\ tab.table_raised' = "none"
                /\ tab.has_format_str'
                /\ tab._format_str' = <<"t", "e", "m", "p">>)]_vars

C33_Witness ==
    /\ tab.table = "failed" /\ tab.made_by = "direct" /\ tab.io_mode = "w"
    /\ ~tab.arg_format_str /\ ~tab.arg_dtype /\ tab.table_raised = "RuntimeError"

\* C38: before_loop takes the first message as the format string and writes
\* the format line to the file before any row; when the first receive gives
\* no message it raises RuntimeError and nothing is written.
C38_FormatLineFirst ==
    /\ [](tab.file_lines # <<>> =>
            /\ tab.driver_pc = "loop"
            /\ tab.table_icomm[1] # <<>>
            /\ tab.file_lines[1] = <<comment, " ">> \o tab.table_icomm[1])
    /\ [](tab.driver_pc = "error" =>
            /\ tab.file_lines = <<>>
            /\ (tab.table_nrecv = 0 \/ tab.table_icomm[1] = <<>>))
    /\ [][(tab.driver_pc = "created" /\ tab.driver_pc' = "error") =>
            (/\ tab.table_raised' = "RuntimeError"
             /\ tab.file_lines' = <<>>
             /\ (tab.table_icomm = <<>> \/ tab.table_icomm[1] = <<>>))]_vars
    /\ [][(tab.driver_pc = "created" /\ tab.driver_pc' = "loop") =>
            (/\ tab.table_nrecv = 0 /\ tab.table_nrecv' = 1
             /\ Len(tab.file_lines') = 1
             /\ tab._format_str' = tab.table_icomm[1])]_vars

C38_Witness ==
    /\ tab.driver_pc = "loop" /\ Len(tab.file_lines) = 2
    /\ tab.file_lines[1] = <<"#", " ", "%", "d", "\n">>
    /\ tab.file_lines[2] = TableRow

\* C40: after any update_format_str and update_dtype calls the format
\* string and the dtype of an AsciiTable agree: each update discards what
\* was kept of the other, so when both are kept one was made from the other
\* and they have the same number of columns.
C40_FormatAndDtypeAgree ==
    (tab.table = "made" /\ tab.has_format_str /\ tab.has_dtype) =>
        /\ Len(tab._dtype) = ncols(tab).value
        /\ Len(tab._dtype) = Len(fmts(tab).value)
        /\ \/ tab._dtype = dtype([tab EXCEPT !.has_dtype = FALSE]).value
           \/ tab._format_str =
                 format_str([tab EXCEPT !.has_format_str = FALSE]).value

C40_Witness ==
    /\ tab.table = "made" /\ tab.has_format_str /\ tab.has_dtype
    /\ Len(tab._dtype) = 3
    /\ tab._format_str = <<"%", "l", "d", "\t", "%", "g", "\t",
                       "%", "h", "h", "u", "\n">>

====
